---------------------------- MODULE Spec2Model ----------------------------
(***************************************************************************)
(* A model of the ZipSurf page engine: the markup tree builder             *)
(* (src/src/html_parser.rs, src/src/node.rs) and the style sheet parser    *)
(* (src/src/css_parser.rs).                                                *)
(*                                                                         *)
(* A Rust String / Vec<char> is a sequence of one-character strings, so    *)
(* that to_lowercase, starts_with, split_whitespace and the cursor of the  *)
(* CSS parser are computed character by character as the code does.        *)
(***************************************************************************)
EXTENDS Integers, Sequences, FiniteSets, TLC

VARIABLES
    body,        \* HtmlParser.body: the markup scanned so far
    buffer,      \* parse(): local `buffer`
    in_tag,      \* parse(): local `in_tag`
    unfinished,  \* HtmlParser.unfinished: stack of open nodes (node ids)
    nodes,       \* the heap of HtmlNode values, in creation order
    hpc,         \* where parse() is: "scan", "done" (returned) or "panic"
    root,        \* the node parse() returned (0 before it returns)
    fed,         \* number of input fragments scanned so far
    mode,        \* CssParser entry point called: "sheet" is parse(),
                 \* "inline" is body() on a style attribute, "none"
    style,       \* CssParser.style
    index,       \* CssParser.index
    rules,       \* parse(): local `rules`
    pairs,       \* body(): local `pairs`
    selector,    \* parse_internal(): local `selector`
    cpc,         \* where the CSS parser is: in the loop of "parse", in the
                 \* loop of "body", "done" (returned), or "idle"
    result,      \* what the entry point returned: "Ok", "Err", "panic"
    iters,       \* loop bodies of parse() and body() executed so far
    default_sheet, \* DEFAULT_STYLE_SHEET: the rules of the embedded sheet
    dom,         \* Tab.nodes: the heap of nodes of the loaded document
    dom_root,    \* Tab.nodes: its root (0 when nothing is loaded)
    styles,      \* HtmlNode.style of each node of dom
    linked,      \* load(): what the requests for the linked sheets gave
    sheet,       \* load(): local `rules`
    pending,     \* the calls of style() still to run, next one first
    tpc,         \* where the tab is: "new", "links" (load() is fetching the
                 \* linked sheets), "style", "styled", "failed" (the last
                 \* load() could not fetch the page), "panic",
                 \* "not_initialized" (the panic of that message), or "idle"
    document,    \* Tab.document: the layout tree (None before load())
    draw_commands, \* Tab.draw_commands: the display list
    fonts,       \* the font metrics behind the egui Context given to draw()
    scroll_y,    \* Tab.scroll_y
    composer,    \* the BlockComposer of the block that is being composed
    walked,      \* tags and words recurse() has walked over so far
    lpc,         \* where the composer is: "recurse", "done", "panic", "idle"
    url,         \* the Url that resolve() is called on (None: no Url made)
    href,        \* the reference given to resolve()
    resolved,    \* what resolve() returned (None before it is called)
    hops,        \* how many resolved references have been followed
    tag_text,    \* the text between `<` and `>` given to get_attributes
    tag_element  \* the Element get_attributes returned (None before)

htmlvars == <<body, buffer, in_tag, unfinished, nodes, hpc, root, fed>>

cssvars == <<mode, style, index, rules, pairs, selector, cpc, result, iters>>

tabvars ==
    <<default_sheet, dom, dom_root, styles, linked, sheet, pending, tpc,
      document, draw_commands, fonts, scroll_y>>

composervars == <<composer, walked, lpc>>

urlvars == <<url, href, resolved, hops>>

attrvars == <<tag_text, tag_element>>

vars == <<body, buffer, in_tag, unfinished, nodes, hpc, root, fed,
          mode, style, index, rules, pairs, selector, cpc, result, iters,
          default_sheet, dom, dom_root, styles, linked, sheet, pending,
          tpc, document, draw_commands, fonts, scroll_y, composer, walked,
          lpc, url, href, resolved, hops, tag_text, tag_element>>

-----------------------------------------------------------------------------
(* Characters and strings                                                  *)

Upper == <<"A","B","C","D","E","F","G","H","I","J","K","L","M",
           "N","O","P","Q","R","S","T","U","V","W","X","Y","Z">>
Lower == <<"a","b","c","d","e","f","g","h","i","j","k","l","m",
           "n","o","p","q","r","s","t","u","v","w","x","y","z">>
Digits == {"0","1","2","3","4","5","6","7","8","9"}

\* char::is_whitespace
IsWhitespace(c) == c \in {" ", "\n", "\t", "\r"}

\* char::is_alphanumeric
IsAlphanumeric(c) ==
    \/ \E i \in 1..Len(Upper) : Upper[i] = c
    \/ \E i \in 1..Len(Lower) : Lower[i] = c
    \/ c \in Digits

\* char::to_lowercase
ToLowerChar(c) ==
    IF \E i \in 1..Len(Upper) : Upper[i] = c
    THEN Lower[CHOOSE i \in 1..Len(Upper) : Upper[i] = c]
    ELSE c

\* str::to_lowercase
ToLowercase(s) == [i \in 1..Len(s) |-> ToLowerChar(s[i])]

\* str::starts_with(char)
StartsWith(s, c) == Len(s) > 0 /\ s[1] = c

\* str::trim().is_empty()
TrimIsEmpty(s) == \A i \in 1..Len(s) : IsWhitespace(s[i])

\* str::contains(char)
Contains(s, c) == \E i \in 1..Len(s) : s[i] = c

RECURSIVE SplitWhitespaceFrom(_, _, _)
\* str::split_whitespace: the maximal runs of non-whitespace characters
SplitWhitespaceFrom(s, i, cur) ==
    IF i > Len(s)
    THEN IF cur = <<>> THEN <<>> ELSE <<cur>>
    ELSE IF IsWhitespace(s[i])
         THEN (IF cur = <<>> THEN <<>> ELSE <<cur>>)
                  \o SplitWhitespaceFrom(s, i + 1, <<>>)
         ELSE SplitWhitespaceFrom(s, i + 1, Append(cur, s[i]))

SplitWhitespace(s) == SplitWhitespaceFrom(s, 1, <<>>)

RECURSIVE SplitCharFrom(_, _, _, _)
\* str::split(char): the pieces between occurrences of c, empty ones kept
SplitCharFrom(s, c, i, cur) ==
    IF i > Len(s) THEN <<cur>>
    ELSE IF s[i] = c
         THEN <<cur>> \o SplitCharFrom(s, c, i + 1, <<>>)
         ELSE SplitCharFrom(s, c, i + 1, Append(cur, s[i]))

SplitChar(s, c) == SplitCharFrom(s, c, 1, <<>>)

IsQuote(c) == c \in {"'", "\""}

RECURSIVE TrimQuotesStart(_)
TrimQuotesStart(s) ==
    IF Len(s) > 0 /\ IsQuote(s[1]) THEN TrimQuotesStart(Tail(s)) ELSE s

RECURSIVE TrimQuotesEnd(_)
TrimQuotesEnd(s) ==
    IF Len(s) > 0 /\ IsQuote(s[Len(s)])
    THEN TrimQuotesEnd(SubSeq(s, 1, Len(s) - 1)) ELSE s

\* str::trim_matches(|c| c == '\'' || c == '"')
TrimQuotes(s) == TrimQuotesEnd(TrimQuotesStart(s))

-----------------------------------------------------------------------------
(* Tag names                                                               *)

S_html  == <<"h","t","m","l">>
S_head  == <<"h","e","a","d">>
S_body  == <<"b","o","d","y">>
S_title == <<"t","i","t","l","e">>
S_img   == <<"i","m","g">>
S_p     == <<"p">>
S_slash_html == <<"/">> \o S_html
S_slash_head == <<"/">> \o S_head

VOID_TAGS ==
    { <<"a","r","e","a">>, <<"b","a","s","e">>, <<"b","r">>, <<"c","o","l">>,
      <<"e","m","b","e","d">>, <<"h","r">>, S_img, <<"i","n","p","u","t">>,
      <<"l","i","n","k">>, <<"m","e","t","a">>, <<"p","a","r","a","m">>,
      <<"s","o","u","r","c","e">>, <<"t","r","a","c","k">>, <<"w","b","r">> }

HEAD_TAGS ==
    { S_title, <<"m","e","t","a">>, <<"l","i","n","k">>, <<"s","t","y","l","e">>,
      <<"s","c","r","i","p","t">>, <<"n","o","s","c","r","i","p","t">>,
      <<"b","a","s","e">> }

-----------------------------------------------------------------------------
(* Document model (node.rs)                                                *)

\* Option<T>: None is the empty sequence, Some(v) is <<v>>
None == <<>>
Some(v) == <<v>>

\* Option<Rc<RefCell<HtmlNode>>> for `parent`: 0 is None, an id is Some(node)
NoNode == 0

EmptyMap == [k \in {} |-> <<>>]

\* HashMap::insert
MapInsert(m, k, v) == [x \in DOMAIN m \cup {k} |-> IF x = k THEN v ELSE m[x]]

\* HtmlNode::new with HtmlNodeType::Element
ElementNode(element, parent) ==
    [kind |-> "Element", tag |-> element.tag, attributes |-> element.attributes,
     text |-> <<>>, parent |-> parent, children |-> <<>>]

\* HtmlNode::new with HtmlNodeType::Text
TextNode(text, parent) ==
    [kind |-> "Text", tag |-> <<>>, attributes |-> EmptyMap,
     text |-> text, parent |-> parent, children |-> <<>>]

RECURSIVE TreeToVecAll(_, _, _)
\* HtmlNode::tree_to_vec: the node, then each child's subtree in children order
TreeToVec(ns, n) == <<n>> \o TreeToVecAll(ns, ns[n].children, 1)
TreeToVecAll(ns, kids, i) ==
    IF i > Len(kids) THEN <<>>
    ELSE TreeToVec(ns, kids[i]) \o TreeToVecAll(ns, kids, i + 1)

-----------------------------------------------------------------------------
(* Markup tree builder (html_parser.rs)                                    *)
(*                                                                         *)
(* A parser value p is [unfinished, nodes, panic]: the open-element stack, *)
(* the heap of nodes and whether the process has halted with a panic.      *)

Panicked(p) == [p EXCEPT !.panic = TRUE]

\* Vec::last on the open stack
Top(p) == p.unfinished[Len(p.unfinished)]

\* PushChild with the child put first instead of last
PushChildFront(ns, parent, child) ==
    [ns EXCEPT ![parent].children = <<child>> \o @]

\* parent.borrow_mut().children.push(child)
PushChild(ns, parent, child) ==
    [ns EXCEPT ![parent].children = Append(@, child)]

\* get_attributes: the value of a `key=value` token, its quotes stripped
AttrValue(value) ==
    IF Len(value) > 2 /\ (StartsWith(value, "'") \/ StartsWith(value, "\""))
    THEN TrimQuotes(value) ELSE value

\* get_attributes, `key=value`: kv is the token split on `=`
InsertKeyValue(attributes, kv) ==
    MapInsert(attributes, ToLowercase(kv[1]), AttrValue(kv[2]))

\* get_attributes, one attribute token: `key=value` or a bare key
InsertAttr(attributes, attrpair) ==
    IF Contains(attrpair, "=")
    THEN InsertKeyValue(attributes, SplitChar(attrpair, "="))
    ELSE MapInsert(attributes, ToLowercase(attrpair), <<>>)

RECURSIVE InsertAttrs(_, _, _)
\* get_attributes: the loop over parts[1..]
InsertAttrs(attributes, parts, i) ==
    IF i > Len(parts) THEN attributes
    ELSE InsertAttrs(InsertAttr(attributes, parts[i]), parts, i + 1)

\* get_attributes on the whitespace-separated parts of the tag text;
\* ok = FALSE is the index-out-of-bounds panic of parts[0]
ElementOfParts(parts) ==
    IF Len(parts) = 0
    THEN [ok |-> FALSE, tag |-> <<>>, attributes |-> EmptyMap]
    ELSE [ok |-> TRUE, tag |-> ToLowercase(parts[1]),
          attributes |-> InsertAttrs(EmptyMap, parts, 2)]

\* get_attributes
GetAttributes(text) == ElementOfParts(SplitWhitespace(text))

\* implicit_tags: the tags of the open elements
OpenTags(p) == [i \in 1..Len(p.unfinished) |-> p.nodes[p.unfinished[i]].tag]

\* CloseBranch without the `len() == 1` early return: the root is popped too
CloseBranchNoGuard(q) ==
    IF Len(q.unfinished) = 0 THEN Panicked(q)
    ELSE IF Len(q.unfinished) = 1 THEN [q EXCEPT !.unfinished = <<>>]
    ELSE LET node   == q.unfinished[Len(q.unfinished)]
             rest   == SubSeq(q.unfinished, 1, Len(q.unfinished) - 1)
             parent == rest[Len(rest)]
         IN [q EXCEPT !.unfinished = rest,
                      !.nodes = PushChild(q.nodes, parent, node)]

\* add_tag, closing tag: pop the top and append it to the new top's children
CloseBranch(q) ==
    IF Len(q.unfinished) = 1 THEN q
    ELSE IF Len(q.unfinished) = 0 THEN Panicked(q)
    ELSE LET node   == Top(q)
             rest   == SubSeq(q.unfinished, 1, Len(q.unfinished) - 1)
             parent == rest[Len(rest)]
         IN [q EXCEPT !.unfinished = rest,
                      !.nodes = PushChild(q.nodes, parent, node)]

\* VoidBranch with the void element pushed on the open stack like any other
VoidBranchPushed(q, element) ==
    LET parent == IF Len(q.unfinished) = 0 THEN NoNode ELSE Top(q)
        id     == Len(q.nodes) + 1
    IN [q EXCEPT !.nodes = Append(q.nodes, ElementNode(element, parent)),
                 !.unfinished = Append(q.unfinished, id)]

\* add_tag, void tag: a leaf under the current top, never pushed
VoidBranch(q, element) ==
    IF Len(q.unfinished) = 0 THEN Panicked(q)
    ELSE [q EXCEPT !.nodes = PushChild(Append(q.nodes, ElementNode(element, Top(q))),
                                       Top(q), Len(q.nodes) + 1)]

\* OpenBranch with the bottom of the stack recorded as parent instead of the top
OpenBranchParentRoot(q, element) ==
    LET parent == IF Len(q.unfinished) = 0 THEN NoNode ELSE q.unfinished[1]
        id     == Len(q.nodes) + 1
    IN [q EXCEPT !.nodes = Append(q.nodes, ElementNode(element, parent)),
                 !.unfinished = Append(q.unfinished, id)]

\* add_tag, any other tag: a new node whose parent is the top, pushed
OpenBranch(q, element) ==
    LET parent == IF Len(q.unfinished) = 0 THEN NoNode ELSE Top(q)
        id     == Len(q.nodes) + 1
    IN [q EXCEPT !.nodes = Append(q.nodes, ElementNode(element, parent)),
                 !.unfinished = Append(q.unfinished, id)]

\* ImplicitTag whose second rule always opens `body`, never `head`
ImplicitTagBodyOnly(open_tags, tag) ==
    IF open_tags = <<>> /\ tag # None /\ tag[1] # S_html
    THEN Some(S_html)
    ELSE IF open_tags = <<S_html>> /\ tag # None
            /\ tag[1] \notin {S_head, S_body, S_slash_html}
    THEN Some(S_body)
    ELSE IF open_tags = <<S_html, S_head>> /\ tag # None
            /\ tag[1] \notin HEAD_TAGS /\ tag[1] # S_slash_head
    THEN Some(S_slash_head)
    ELSE None

\* implicit_tags, one round: the tag to insert (None when no rule applies)
ImplicitTag(open_tags, tag) ==
    IF open_tags = <<>> /\ tag # None /\ tag[1] # S_html
    THEN Some(S_html)
    ELSE IF open_tags = <<S_html>> /\ tag # None
            /\ tag[1] \notin {S_head, S_body, S_slash_html}
    THEN IF tag[1] \in HEAD_TAGS THEN Some(S_head) ELSE Some(S_body)
    ELSE IF open_tags = <<S_html, S_head>> /\ tag # None
            /\ tag[1] \notin HEAD_TAGS /\ tag[1] # S_slash_head
    THEN Some(S_slash_head)
    ELSE None

\* add_tag after implicit_tags: the closing, the void and the other tags
TagBranch(q, element) ==
    IF q.panic THEN q
    ELSE IF StartsWith(element.tag, "/") THEN CloseBranch(q)
    ELSE IF element.tag \in VOID_TAGS THEN VoidBranch(q, element)
    ELSE OpenBranch(q, element)

RECURSIVE AddElement(_, _)
RECURSIVE ImplicitTags(_, _)

\* An add_tag that has no branch for the tags that start with `!`
AddElementKeepsAll(p, element) ==
    IF p.panic THEN p
    ELSE IF ~element.ok THEN Panicked(p)
    ELSE TagBranch(ImplicitTags(p, Some(element.tag)), element)

\* add_tag, given the element get_attributes made of the tag text
AddElement(p, element) ==
    IF p.panic THEN p
    ELSE IF ~element.ok THEN Panicked(p)
    ELSE IF StartsWith(element.tag, "!") THEN p
    ELSE TagBranch(ImplicitTags(p, Some(element.tag)), element)

\* add_tag
AddTag(p, tag) == AddElement(p, GetAttributes(tag))

\* implicit_tags, one round of the loop: insert t, or stop when t is None
ImplicitRound(p, tag, t) ==
    IF t = None THEN p ELSE ImplicitTags(AddTag(p, t[1]), tag)

\* implicit_tags: the loop, repeated until no rule applies
ImplicitTags(p, tag) ==
    IF p.panic THEN p ELSE ImplicitRound(p, tag, ImplicitTag(OpenTags(p), tag))

\* add_text after implicit_tags: a text node under the current top
TextBranch(q, text) ==
    IF q.panic THEN q
    ELSE IF Len(q.unfinished) = 0 THEN Panicked(q)
    ELSE [q EXCEPT !.nodes = PushChild(Append(q.nodes, TextNode(text, Top(q))),
                                       Top(q), Len(q.nodes) + 1)]

\* add_text
AddText(p, text) ==
    IF p.panic \/ TrimIsEmpty(text) THEN p
    ELSE TextBranch(ImplicitTags(p, None), text)

RECURSIVE Collapse(_)
\* finish: while more than one node is open, pop it into the new top
Collapse(q) ==
    IF Len(q.unfinished) > 1 THEN Collapse(CloseBranch(q)) ELSE q

\* finish, the final pop: [p, root]; on an empty stack it is the
\* unwrap-on-None panic
PopRoot(r) ==
    IF r.panic THEN [p |-> r, root |-> NoNode]
    ELSE IF Len(r.unfinished) = 0 THEN [p |-> Panicked(r), root |-> NoNode]
    ELSE [p |-> [r EXCEPT !.unfinished = <<>>], root |-> r.unfinished[1]]

\* finish
Finish(p) ==
    PopRoot(Collapse(IF Len(p.unfinished) = 0 THEN ImplicitTags(p, None) ELSE p))

\* parse: one iteration of the character loop on scanner state
\* s = [buffer, in_tag, p]
ParseChar(s, c) ==
    IF s.p.panic THEN s
    ELSE IF c = "<"
    THEN [buffer |-> <<>>, in_tag |-> TRUE,
          p |-> IF s.buffer # <<>> THEN AddText(s.p, s.buffer) ELSE s.p]
    ELSE IF c = ">"
    THEN [buffer |-> <<>>, in_tag |-> FALSE, p |-> AddTag(s.p, s.buffer)]
    ELSE [s EXCEPT !.buffer = Append(@, c)]

RECURSIVE ParseChars(_, _, _)
\* parse: the character loop over cs[i..]
ParseChars(s, cs, i) ==
    IF s.p.panic \/ i > Len(cs) THEN s
    ELSE ParseChars(ParseChar(s, cs[i]), cs, i + 1)

\* parse: after the loop, flush trailing text and finish
ParseEnd(s) ==
    Finish(IF ~s.in_tag /\ s.buffer # <<>> THEN AddText(s.p, s.buffer) ELSE s.p)

-----------------------------------------------------------------------------
(* Style sheet parser (css_parser.rs)                                      *)
(*                                                                         *)
(* The cursor `index` counts from 0 as in the code; every tokenizer        *)
(* operator takes the character buffer s and a cursor i and returns the    *)
(* cursor it leaves, with its result.                                      *)

\* self.style[i]
At(s, i) == s[i + 1]

\* self.style[a..b]
Slice(s, a, b) == SubSeq(s, a + 1, b)

RECURSIVE Whitespace(_, _)
\* whitespace
Whitespace(s, i) ==
    IF i < Len(s) /\ IsWhitespace(At(s, i)) THEN Whitespace(s, i + 1) ELSE i

\* word: the characters a word is made of
IsWordChar(c) == IsAlphanumeric(c) \/ c \in {"#", "-", ".", "%"}

RECURSIVE WordEnd(_, _)
\* word: the loop
WordEnd(s, i) ==
    IF i < Len(s) /\ ~IsWhitespace(At(s, i)) /\ IsWordChar(At(s, i))
    THEN WordEnd(s, i + 1) ELSE i

\* word: Err when nothing was consumed
WordFrom(s, start, end) ==
    IF end <= start
    THEN [ok |-> FALSE, index |-> end, word |-> <<>>]
    ELSE [ok |-> TRUE, index |-> end, word |-> Slice(s, start, end)]

\* word
Word(s, i) == WordFrom(s, i, WordEnd(s, i))

\* literal
Literal(s, i, literal) ==
    IF ~(i < Len(s) /\ At(s, i) = literal)
    THEN [ok |-> FALSE, index |-> i]
    ELSE [ok |-> TRUE, index |-> i + 1]

NoPair(i) == [ok |-> FALSE, index |-> i, prop |-> <<>>, val |-> <<>>]

\* pair: `let val = self.word()?; Ok((prop.to_lowercase(), val))`
PairValue(prop, val) ==
    IF ~val.ok THEN NoPair(val.index)
    ELSE [ok |-> TRUE, index |-> val.index, prop |-> ToLowercase(prop.word),
          val |-> val.word]

\* pair: `self.literal(':')?; self.whitespace();` then the value
PairColon(s, prop, colon) ==
    IF ~colon.ok THEN NoPair(colon.index)
    ELSE PairValue(prop, Word(s, Whitespace(s, colon.index)))

\* pair: `let prop = self.word()?; self.whitespace();` then the colon
PairProp(s, prop) ==
    IF ~prop.ok THEN NoPair(prop.index)
    ELSE PairColon(s, prop, Literal(s, Whitespace(s, prop.index), ":"))

\* pair
Pair(s, i) == PairProp(s, Word(s, i))

RECURSIVE IgnoreUntil(_, _, _)
\* ignore_until: [why, index]; why is None or Some(the literal found)
IgnoreUntil(s, i, literals) ==
    IF i < Len(s)
    THEN IF At(s, i) \in literals
         THEN [why |-> Some(At(s, i)), index |-> i]
         ELSE IgnoreUntil(s, i + 1, literals)
    ELSE [why |-> None, index |-> i]

\* handle_body_error, after ignore_until: [should_break, index, panic];
\* panic is the `expect` on literal(';')
AfterIgnore(s, found, semi) ==
    IF found.why = Some(";")
    THEN IF semi.ok
         THEN [should_break |-> FALSE, index |-> Whitespace(s, semi.index),
               panic |-> FALSE]
         ELSE [should_break |-> FALSE, index |-> semi.index, panic |-> TRUE]
    ELSE [should_break |-> TRUE, index |-> found.index, panic |-> FALSE]

\* handle_body_error, given what ignore_until found
HandleFound(s, found) == AfterIgnore(s, found, Literal(s, found.index, ";"))

\* handle_body_error
HandleBodyError(s, i) == HandleFound(s, IgnoreUntil(s, i, {";", "}"}))

\* What one iteration of the loop of body() ends with: ctl is "continue",
\* "break", "err" (body returns Err) or "panic"
BodyCtl(ctl, i, ps) == [ctl |-> ctl, index |-> i, pairs |-> ps]

\* body, the pair failed: handle_body_error, then `pair?` returns the Err
\* unless the loop was left
BodyPairErr(h, ps) ==
    IF h.panic THEN BodyCtl("panic", h.index, ps)
    ELSE IF h.should_break THEN BodyCtl("break", h.index, ps)
    ELSE BodyCtl("err", h.index, ps)

\* body, the `;` is missing: handle_body_error, then the trailing whitespace
BodySemiErr(s, h, ps) ==
    IF h.panic THEN BodyCtl("panic", h.index, ps)
    ELSE IF h.should_break THEN BodyCtl("break", h.index, ps)
    ELSE BodyCtl("continue", Whitespace(s, h.index), ps)

\* body, after the pair was inserted and whitespace skipped: the `;`
BodySemi(s, semi, ps) ==
    IF ~semi.ok THEN BodySemiErr(s, HandleBodyError(s, semi.index), ps)
    ELSE BodyCtl("continue", Whitespace(s, semi.index), ps)

\* body, after pair()
BodyPair(s, pair, ps) ==
    IF ~pair.ok THEN BodyPairErr(HandleBodyError(s, pair.index), ps)
    ELSE BodySemi(s, Literal(s, Whitespace(s, pair.index), ";"),
                  MapInsert(ps, pair.prop, pair.val))

\* body: the condition of its loop
BodyLoopCond(s, i) == i < Len(s) /\ At(s, i) # "}"

\* body: one iteration of its loop
BodyIteration(s, i, ps) == BodyPair(s, Pair(s, i), ps)

\* Selector values
TagSelector(tag) == [type |-> "Tag", tag |-> tag]
DescendantSelector(ancestor, descendant) ==
    [type |-> "Descendant", ancestor |-> ancestor, descendant |-> descendant]

NoSelector(i) == [ok |-> FALSE, index |-> i, selector |-> <<>>]

RECURSIVE SelectorLoop(_, _, _)
RECURSIVE SelectorNext(_, _, _)

\* selector: the loop adding one descendant per word until `{`
SelectorLoop(s, i, out) ==
    IF i < Len(s) /\ At(s, i) # "{"
    THEN SelectorNext(s, Word(s, i), out)
    ELSE [ok |-> TRUE, index |-> i, selector |-> out]

\* selector: the body of the loop, `let tag = self.word()?; out = Descendant`
SelectorNext(s, tag, out) ==
    IF ~tag.ok THEN NoSelector(tag.index)
    ELSE SelectorLoop(s, tag.index,
             DescendantSelector(out, TagSelector(ToLowercase(tag.word))))

\* selector: the first word, then whitespace, then the loop
SelectorFirst(s, first) ==
    IF ~first.ok THEN NoSelector(first.index)
    ELSE SelectorLoop(s, Whitespace(s, first.index),
                      TagSelector(ToLowercase(first.word)))

\* selector
Selector(s, i) == SelectorFirst(s, Word(s, i))

\* parse_internal up to body(): `self.literal('{')?; self.whitespace();`
RuleBrace(s, sel, brace) ==
    IF ~brace.ok THEN NoSelector(brace.index)
    ELSE [ok |-> TRUE, index |-> Whitespace(s, brace.index),
          selector |-> sel.selector]

\* parse_internal up to body(): `let selector = self.selector()?;`
RuleSelector(s, sel) ==
    IF ~sel.ok THEN NoSelector(sel.index)
    ELSE RuleBrace(s, sel, Literal(s, sel.index, "{"))

\* parse_internal up to body(): whitespace, selector, `{`, whitespace
RuleHead(s, i) == RuleSelector(s, Selector(s, Whitespace(s, i)))

\* A recovery that stops in front of the `}` it found
RecoverKeepsBrace(s, found, brace) ==
    IF found.why = Some("}")
    THEN [ctl |-> "continue", index |-> Whitespace(s, found.index)]
    ELSE [ctl |-> "break", index |-> found.index]

\* parse, the Err arm, after ignore_until: ctl is "continue", "break" or
\* "err" (`self.literal('}')?` returns the Err from parse)
RecoverFound(s, found, brace) ==
    IF found.why = Some("}")
    THEN IF brace.ok
         THEN [ctl |-> "continue", index |-> Whitespace(s, brace.index)]
         ELSE [ctl |-> "err", index |-> brace.index]
    ELSE [ctl |-> "break", index |-> found.index]

\* parse, the Err arm, given what ignore_until found
RecoverAt(s, found) == RecoverFound(s, found, Literal(s, found.index, "}"))

\* parse, the Err arm: skip to the next `}` and past it
Recover(s, i) == RecoverAt(s, IgnoreUntil(s, i, {"}"}))

\* What body() returns: [ok, index, pairs, panic]
BodyResult(ok, i, ps, panic) ==
    [ok |-> ok, index |-> i, pairs |-> ps, panic |-> panic]

RECURSIVE BodyRun(_, _, _)
RECURSIVE BodyRunNext(_, _)

\* body: its loop run from cursor i with the pairs ps collected so far
BodyRun(s, i, ps) ==
    IF BodyLoopCond(s, i) THEN BodyRunNext(s, BodyIteration(s, i, ps))
    ELSE BodyResult(TRUE, i, ps, FALSE)

\* body: after one pass b through its loop
BodyRunNext(s, b) ==
    CASE b.ctl = "continue" -> BodyRun(s, b.index, b.pairs)
      [] b.ctl = "break" -> BodyResult(TRUE, b.index, b.pairs, FALSE)
      [] b.ctl = "err" -> BodyResult(FALSE, b.index, b.pairs, FALSE)
      [] OTHER -> BodyResult(FALSE, b.index, b.pairs, TRUE)

\* CssParser::new(s).body()
Body(s) == BodyRun(s, 0, EmptyMap)

\* What parse() returns: [ok, rules, panic]
ParseResult(ok, rs, panic) == [ok |-> ok, rules |-> rs, panic |-> panic]

RECURSIVE ParseRun(_, _, _)
RECURSIVE ParseRecover(_, _, _)
RECURSIVE ParseRuleEnd(_, _, _, _, _)
RECURSIVE ParseRuleBody(_, _, _, _)
RECURSIVE ParseRuleHead(_, _, _)

\* parse: its loop run from cursor i with the rules rs collected so far
ParseRun(s, i, rs) ==
    IF i < Len(s) THEN ParseRuleHead(s, rs, RuleHead(s, i))
    ELSE ParseResult(TRUE, rs, FALSE)

\* parse: the Err arm of `match result`, with the recovery r
ParseRecover(s, rs, r) ==
    CASE r.ctl = "continue" -> ParseRun(s, r.index, rs)
      [] r.ctl = "break" -> ParseResult(TRUE, rs, FALSE)
      [] OTHER -> ParseResult(FALSE, rs, FALSE)

\* parse_internal after body(): `self.literal('}')?; rules.push(..)`
ParseRuleEnd(s, rs, sel, ps, brace) ==
    IF brace.ok
    THEN ParseRun(s, brace.index,
                  Append(rs, [selector |-> sel, body |-> ps]))
    ELSE ParseRecover(s, rs, Recover(s, brace.index))

\* parse_internal: `let body = self.body()?;`
ParseRuleBody(s, rs, sel, b) ==
    IF b.panic THEN ParseResult(FALSE, rs, TRUE)
    ELSE IF b.ok
    THEN ParseRuleEnd(s, rs, sel, b.pairs, Literal(s, b.index, "}"))
    ELSE ParseRecover(s, rs, Recover(s, b.index))

\* parse_internal: after the head h of a rule
ParseRuleHead(s, rs, h) ==
    IF h.ok THEN ParseRuleBody(s, rs, h.selector, BodyRun(s, h.index, EmptyMap))
    ELSE ParseRecover(s, rs, Recover(s, h.index))

\* CssParser::new(s).parse()
Parse(s) == ParseRun(s, 0, <<>>)

-----------------------------------------------------------------------------
(* Selectors (selector.rs)                                                 *)
(*                                                                         *)
(* ns is the heap of document nodes, n a node id.                          *)

RECURSIVE Matches(_, _, _)
RECURSIVE AncestorMatches(_, _, _)

\* matches, Descendant: the loop up the parent chain of n
AncestorMatches(ns, ancestor, n) ==
    IF ns[n].parent # NoNode
    THEN IF Matches(ns, ancestor, ns[n].parent) THEN TRUE
         ELSE AncestorMatches(ns, ancestor, ns[n].parent)
    ELSE FALSE

\* A Tag selector that every Text node matches too
MatchesTagOrText(ns, sel, n) ==
    IF ns[n].kind = "Element" THEN ns[n].tag = sel.tag ELSE TRUE

\* matches, Tag
MatchesTag(ns, sel, n) ==
    IF ns[n].kind = "Element" THEN ns[n].tag = sel.tag ELSE FALSE

\* A Descendant whose walk up the parent chain starts at the node itself
MatchesDescendantOrSelf(ns, sel, n) ==
    IF ~Matches(ns, sel.descendant, n) THEN FALSE
    ELSE Matches(ns, sel.ancestor, n) \/ AncestorMatches(ns, sel.ancestor, n)

\* matches, Descendant
MatchesDescendant(ns, sel, n) ==
    IF ~Matches(ns, sel.descendant, n) THEN FALSE
    ELSE AncestorMatches(ns, sel.ancestor, n)

\* matches
Matches(ns, sel, n) ==
    IF sel.type = "Tag" THEN MatchesTag(ns, sel, n)
    ELSE MatchesDescendant(ns, sel, n)

RECURSIVE Priority(_)
\* A priority that counts the ancestor side as one name
PriorityOfLast(sel) ==
    IF sel.type = "Tag" THEN 1 ELSE 1 + Priority(sel.descendant)

\* priority
Priority(sel) ==
    IF sel.type = "Tag" THEN 1
    ELSE Priority(sel.ancestor) + Priority(sel.descendant)

-----------------------------------------------------------------------------
(* The markup scanner as a state machine.  parse() reads its input once,   *)
(* left to right, and never looks ahead, so the input is supplied one      *)
(* fragment at a time: Scan(f) runs the character loop of parse() over the *)
(* next fragment f, and EndOfInput is the iterator returning None.         *)

\* How many fragments one input is made of
MaxFragments == 3

\* The fragments inputs are made of: tags, text, and lexical debris
F_html == <<"<","h","t","m","l",">">>
F_head == <<"<","h","e","a","d",">">>
F_body == <<"<","b","o","d","y",">">>
F_p == <<"<","p",">">>
F_close_p == <<"<","/","p",">">>
F_titleX == <<"<","t","i","t","l","e",">","X","<","/","t","i","t","l","e",">">>
F_pY == <<"<","p",">","Y","<","/","p",">">>
F_img == <<"<","i","m","g",">">>
F_doctype == <<"<","!","d",">">>
F_empty_tag == <<"<",">">>
F_x == <<"x">>
F_space == <<" ">>
F_close_html == <<"<","/","h","t","m","l",">">>
F_close_HEAD == <<"<","/","H","E","A","D",">">>
F_lt == <<"<">>
F_gt == <<">">>

Fragments ==
    { F_html, F_head, F_body, F_p,
      F_close_p, F_titleX, F_pY, F_img,
      F_doctype, F_empty_tag, F_x, F_space,
      F_close_html, F_close_HEAD, F_lt, F_gt }

Scanner == [buffer |-> buffer, in_tag |-> in_tag,
            p |-> [unfinished |-> unfinished, nodes |-> nodes, panic |-> FALSE]]

\* `HtmlParser { body, unfinished: vec![] }`, parse() not yet started
HtmlNew ==
    /\ body = <<>>
    /\ buffer = <<>>
    /\ in_tag = FALSE
    /\ unfinished = <<>>
    /\ nodes = <<>>
    /\ hpc = "scan"
    /\ root = NoNode
    /\ fed = 0

\* No CssParser has been constructed
CssIdle ==
    /\ mode = "none"
    /\ style = <<>>
    /\ index = 0
    /\ rules = <<>>
    /\ pairs = EmptyMap
    /\ selector = None
    /\ cpc = "idle"
    /\ result = "none"
    /\ iters = 0

\* No Tab has been constructed
TabIdle ==
    /\ default_sheet = <<>>
    /\ dom = <<>>
    /\ dom_root = NoNode
    /\ styles = <<>>
    /\ linked = <<>>
    /\ sheet = <<>>
    /\ pending = <<>>
    /\ tpc = "idle"
    /\ document = None
    /\ draw_commands = <<>>
    /\ fonts = None
    /\ scroll_y = 0

\* No block is being composed
ComposerIdle ==
    /\ composer = None
    /\ walked = 0
    /\ lpc = "idle"

\* No Url has been made
UrlIdle ==
    /\ url = None
    /\ href = <<>>
    /\ resolved = None
    /\ hops = 0

\* get_attributes has not been called
AttrIdle ==
    /\ tag_text = <<>>
    /\ tag_element = None

HtmlInit ==
    HtmlNew /\ CssIdle /\ TabIdle /\ ComposerIdle /\ UrlIdle /\ AttrIdle

\* parse(): the scanner moves to state s, having read f
ScanTo(f, s) ==
    /\ body' = body \o f
    /\ fed' = fed + 1
    /\ buffer' = s.buffer
    /\ in_tag' = s.in_tag
    /\ unfinished' = s.p.unfinished
    /\ nodes' = s.p.nodes
    /\ hpc' = IF s.p.panic THEN "panic" ELSE "scan"
    /\ root' = root
    /\ UNCHANGED <<cssvars, tabvars, composervars, urlvars, attrvars>>

\* parse(): the loop body applied to the characters of the next fragment
Scan(f) ==
    /\ hpc = "scan"
    /\ fed < MaxFragments
    /\ ScanTo(f, ParseChars(Scanner, f, 1))

\* parse(): it returns r.root, or has panicked
ReturnWith(r) ==
    /\ unfinished' = r.p.unfinished
    /\ nodes' = r.p.nodes
    /\ hpc' = IF r.p.panic THEN "panic" ELSE "done"
    /\ root' = r.root
    /\ UNCHANGED <<body, buffer, in_tag, fed>>
    /\ UNCHANGED <<cssvars, tabvars, composervars, urlvars, attrvars>>

\* parse(): the input is exhausted; flush the trailing text and finish()
EndOfInput ==
    /\ hpc = "scan"
    /\ ReturnWith(ParseEnd(Scanner))

HtmlNext ==
    \/ \E f \in Fragments : Scan(f)
    \/ EndOfInput

HtmlSpec == HtmlInit /\ [][HtmlNext]_vars

-----------------------------------------------------------------------------
(* The style sheet parser as a state machine.  CssParser::new(style) is    *)
(* followed by one call, parse() on a style sheet or body() on an inline   *)
(* style attribute; each step is one pass through the loop of parse() or   *)
(* of body(), or the return that follows the last pass.                    *)

\* How many pieces one style text is made of
MaxPieces == 4

\* The pieces style texts are made of
P_a == <<"a">>
P_space == <<" ">>
P_colon == <<":">>
P_semi == <<";">>
P_open == <<"{">>
P_close == <<"}">>
P_decl == <<"c",":","d",";">>
P_rule == <<"P","{","C",":","d",";","}">>

Pieces == { P_a, P_space, P_colon, P_semi, P_open, P_close, P_decl, P_rule }

RECURSIVE Texts(_)
\* Every concatenation of at most n pieces
Texts(n) ==
    IF n = 0 THEN { <<>> }
    ELSE Texts(n - 1) \cup { t \o piece : t \in Texts(n - 1), piece \in Pieces }

\* Names, declarations and rules that longer style texts are made of
N_a == <<"a">>
N_b == <<"b">>
N_c == <<"c">>
N_Div == <<"D","i","v">>
N_div == <<"d","i","v">>
D_color == <<"c","o","l","o","r",":","r","e","d",";">>
D_size == <<"f","o","n","t","-","s","i","z","e",":","1","p","x",";">>
K_color == <<"c","o","l","o","r">>
V_red == <<"r","e","d">>
K_size == <<"f","o","n","t","-","s","i","z","e">>
V_1px == <<"1","p","x">>
ColorOnly == MapInsert(EmptyMap, K_color, V_red)
SizeOnly == MapInsert(EmptyMap, K_size, V_1px)
ColorAndSize == MapInsert(ColorOnly, K_size, V_1px)

\* A declaration that is malformed, up to and including its `;`
B_word == <<"b","a","d",";">>
B_novalue == <<"b","a","d",":",";">>
B_noprop == <<":","r","e","d",";">>
B_nosemi == <<"t","o","p",":","0"," ","l","e","f","t",":","0",";">>
BadDeclarations == { B_word, B_novalue, B_noprop, B_nosemi }

\* Declaration lists with one malformed declaration in the middle
BodyTexts == { D_color \o bad \o D_size : bad \in BadDeclarations }

\* The names of a selector separated by one space
RECURSIVE SpaceSeparated(_)
SpaceSeparated(names) ==
    IF Len(names) = 1 THEN names[1]
    ELSE SpaceSeparated(SubSeq(names, 1, Len(names) - 1)) \o <<" ">>
             \o names[Len(names)]

NameLists == { <<N_a>>, <<N_Div>>, <<N_a, N_b>>, <<N_Div, N_a>>,
               <<N_a, N_b, N_c>> }

\* What may stand between the last name of a selector and the brace
Gaps == { <<>>, <<" ">> }

\* A rule with the given selector names, gap and declarations
RuleText(names, gap, decls) ==
    SpaceSeparated(names) \o gap \o <<"{">> \o decls \o <<"}">>

\* Rules that are well formed
GoodRules == { RuleText(names, gap, D_color) : names \in NameLists,
                                                gap \in Gaps }

\* Text that is not a rule, up to and including its `}`
M_nobrace == <<"x","}">>
M_noselector == <<"{","c","o","l","o","r",":","r","e","d",";","}">>
M_colon == <<"a",":","b","}">>
BadRules == { M_nobrace, M_noselector, M_colon }

R_a == RuleText(<<N_a>>, <<>>, D_color)
R_size == RuleText(<<N_c>>, <<>>, D_size)
T_skip == R_a \o <<" ","b"," ","b","a","d","-","d","e","c","l"," ">> \o R_size

\* Style sheets given to parse()
Sheets ==
    Texts(MaxPieces)
      \cup { RuleText(names, gap, <<>>) : names \in NameLists, gap \in Gaps }
      \cup { RuleText(<<N_a>>, <<>>, decls) : decls \in BodyTexts }
      \cup { R_a \o bad \o good : bad \in BadRules, good \in GoodRules }
      \cup { good \o bad \o R_size : bad \in BadRules, good \in GoodRules }
      \cup { T_skip }

\* Style attributes given to body()
Inlines == Texts(MaxPieces) \cup BodyTexts

\* CssParser::new(s), about to run the entry point m
CssNew(m, s) ==
    /\ mode = m
    /\ style = s
    /\ index = 0
    /\ rules = <<>>
    /\ pairs = EmptyMap
    /\ selector = None
    /\ cpc = IF m = "sheet" THEN "parse" ELSE "body"
    /\ result = "none"
    /\ iters = 0

CssInit ==
    /\ HtmlNew
    /\ TabIdle
    /\ ComposerIdle
    /\ UrlIdle
    /\ AttrIdle
    /\ \/ \E s \in Sheets : CssNew("sheet", s)
       \/ \E s \in Inlines : CssNew("inline", s)

\* The parser moves on: cursor i, position pc, result res, rules rs,
\* pairs ps, selector sel
CssTo(i, pc, res, rs, ps, sel) ==
    /\ index' = i
    /\ cpc' = pc
    /\ result' = res
    /\ rules' = rs
    /\ pairs' = ps
    /\ selector' = sel
    /\ UNCHANGED <<mode, style>>
    /\ UNCHANGED <<htmlvars, tabvars, composervars, urlvars, attrvars>>

\* parse: the Err arm of `match result`, with the recovery r
ErrArm(r, ps) ==
    CASE r.ctl = "continue" ->
             CssTo(r.index, "parse", result, rules, ps, selector)
      [] r.ctl = "break" ->
             CssTo(r.index, "done", "Ok", rules, ps, selector)
      [] OTHER ->
             CssTo(r.index, "done", "Err", rules, ps, selector)

\* parse_internal after body(): `self.literal('}')?; rules.push(..)`
RuleEnd(ps, brace) ==
    IF brace.ok
    THEN CssTo(brace.index, "parse", result,
               Append(rules, [selector |-> selector, body |-> ps]),
               ps, selector)
    ELSE ErrArm(Recover(style, brace.index), ps)

\* body returns Ok(ps) with the cursor at i
BodyReturnsOk(i, ps) ==
    IF mode = "inline"
    THEN CssTo(i, "done", "Ok", rules, ps, selector)
    ELSE RuleEnd(ps, Literal(style, i, "}"))

\* body returns Err with the cursor at i: `let body = self.body()?;`
BodyReturnsErr(i, ps) ==
    IF mode = "inline"
    THEN CssTo(i, "done", "Err", rules, ps, selector)
    ELSE ErrArm(Recover(style, i), ps)

\* body: what follows one pass b through its loop
BodyStep(b) ==
    CASE b.ctl = "continue" ->
             CssTo(b.index, "body", result, rules, b.pairs, selector)
      [] b.ctl = "break" -> BodyReturnsOk(b.index, b.pairs)
      [] b.ctl = "err" -> BodyReturnsErr(b.index, b.pairs)
      [] OTHER -> CssTo(b.index, "done", "panic", rules, b.pairs, selector)

\* parse_internal: what follows the head h of a rule
RuleHeadStep(h) ==
    IF h.ok
    THEN CssTo(h.index, "body", result, rules, EmptyMap, h.selector)
    ELSE ErrArm(Recover(style, h.index), pairs)

\* parse: one pass through its loop, up to the call of body()
ParseLoop ==
    /\ cpc = "parse"
    /\ index < Len(style)
    /\ iters' = iters + 1
    /\ RuleHeadStep(RuleHead(style, index))

\* parse: the loop is over, `Ok(rules)`
ParseReturn ==
    /\ cpc = "parse"
    /\ ~(index < Len(style))
    /\ iters' = iters
    /\ CssTo(index, "done", "Ok", rules, pairs, selector)

\* body: one pass through its loop
BodyLoop ==
    /\ cpc = "body"
    /\ BodyLoopCond(style, index)
    /\ iters' = iters + 1
    /\ BodyStep(BodyIteration(style, index, pairs))

\* body: the loop is over, `Ok(pairs)`
BodyReturn ==
    /\ cpc = "body"
    /\ ~BodyLoopCond(style, index)
    /\ iters' = iters
    /\ BodyReturnsOk(index, pairs)

CssNext ==
    \/ ParseLoop
    \/ ParseReturn
    \/ BodyLoop
    \/ BodyReturn

CssSpec == CssInit /\ [][CssNext]_vars

-----------------------------------------------------------------------------
(* Cascade (tab.rs, Tab::style)                                            *)
(*                                                                         *)
(* An f32 is the whole number of its thousandths.  The font sizes and      *)
(* percentages of the style texts below are dyadic, so that the products   *)
(* the code computes in f32 are exact; exponents, signs, `inf` and `nan`   *)
(* do not occur in them.                                                   *)

Scale == 1000
DigitString == <<"0","1","2","3","4","5","6","7","8","9">>

\* The value of a digit character
DigitValue(c) == (CHOOSE i \in 1..10 : DigitString[i] = c) - 1

\* All characters are digits
AllDigits(str) == \A i \in 1..Len(str) : str[i] \in Digits

RECURSIVE DigitsValue(_)
\* The number a string of digits stands for
DigitsValue(str) ==
    IF str = <<>> THEN 0
    ELSE 10 * DigitsValue(SubSeq(str, 1, Len(str) - 1))
           + DigitValue(str[Len(str)])

\* The thousandths a fraction of up to three digits stands for
FractionValue(str) ==
    DigitsValue(str \o SubSeq(<<"0","0","0">>, 1, 3 - Len(str)))

NoF32 == [ok |-> FALSE, value |-> 0]

\* f32::from_str on `digits`, `digits.digits`, `digits.` or `.digits`
F32OfParts(parts) ==
    IF Len(parts) = 1
    THEN IF parts[1] # <<>> /\ AllDigits(parts[1])
         THEN [ok |-> TRUE, value |-> DigitsValue(parts[1]) * Scale]
         ELSE NoF32
    ELSE IF /\ Len(parts) = 2
            /\ AllDigits(parts[1]) /\ AllDigits(parts[2])
            /\ parts[1] \o parts[2] # <<>>
            /\ Len(parts[2]) <= 3
         THEN [ok |-> TRUE,
               value |-> DigitsValue(parts[1]) * Scale + FractionValue(parts[2])]
         ELSE NoF32

\* f32::from_str, str::parse::<f32>
ParseF32(str) == F32OfParts(SplitChar(str, "."))

RECURSIVE NatToString(_)
\* Display of a whole number
NatToString(n) ==
    IF n < 10 THEN <<DigitString[n + 1]>>
    ELSE NatToString(n \div 10) \o <<DigitString[(n % 10) + 1]>>

RECURSIVE StripZeros(_)
\* Trailing zeros are not printed
StripZeros(str) ==
    IF str # <<>> /\ str[Len(str)] = "0"
    THEN StripZeros(SubSeq(str, 1, Len(str) - 1)) ELSE str

\* The three digits of a number of thousandths
ThreeDigits(f) ==
    <<DigitString[(f \div 100) + 1], DigitString[((f \div 10) % 10) + 1],
      DigitString[(f % 10) + 1]>>

\* format!("{}", f32)
FormatF32(v) ==
    IF v % Scale = 0 THEN NatToString(v \div Scale)
    ELSE NatToString(v \div Scale) \o <<".">>
           \o StripZeros(ThreeDigits(v % Scale))

\* str::ends_with("%")
EndsWithPercent(str) == str # <<>> /\ str[Len(str)] = "%"

RECURSIVE RemoveChar(_, _)
\* str::replace("%", "")
RemoveChar(str, c) ==
    IF str = <<>> THEN <<>>
    ELSE IF Head(str) = c THEN RemoveChar(Tail(str), c)
    ELSE <<Head(str)>> \o RemoveChar(Tail(str), c)

RECURSIVE RemovePx(_)
\* str::replace("px", "")
RemovePx(str) ==
    IF Len(str) < 2 THEN str
    ELSE IF str[1] = "p" /\ str[2] = "x" THEN RemovePx(SubSeq(str, 3, Len(str)))
    ELSE <<Head(str)>> \o RemovePx(Tail(str))

\* INHERITED_PROPERTIES
K_weight == <<"f","o","n","t","-","w","e","i","g","h","t">>
K_style == <<"f","o","n","t","-","s","t","y","l","e">>
K_attr_style == <<"s","t","y","l","e">>
V_black == <<"b","l","a","c","k">>
V_16px == <<"1","6","p","x">>
V_normal == <<"n","o","r","m","a","l">>
INHERITED_PROPERTIES ==
    MapInsert(MapInsert(MapInsert(MapInsert(EmptyMap,
        K_color, V_black), K_size, V_16px), K_weight, V_normal),
        K_style, V_normal)

\* for (k, v) in over { m.insert(k, v) }
Overlay(m, over) ==
    [k \in DOMAIN m \cup DOMAIN over |->
        IF k \in DOMAIN over THEN over[k] ELSE m[k]]

\* A seed that is the defaults for every node
InheritedDefaults(ns, st, n) == INHERITED_PROPERTIES

\* style: the inherited seed of node n, from the defaults or from the
\* resolved style of its parent
InheritedStyleMap(ns, st, n) ==
    [k \in DOMAIN INHERITED_PROPERTIES |->
        IF ns[n].parent = NoNode THEN INHERITED_PROPERTIES[k]
        ELSE st[ns[n].parent][k]]

RECURSIVE ApplyRules(_, _, _, _, _)
\* style: the declarations of the rules rs[i..] that match n, in order
ApplyRules(ns, rs, n, i, m) ==
    IF i > Len(rs) THEN m
    ELSE ApplyRules(ns, rs, n, i + 1,
             IF Matches(ns, rs[i].selector, n) THEN Overlay(m, rs[i].body)
             ELSE m)

\* style: `if let Ok(pairs_map) = parser.body()`
InlinePairs(m, b) == IF b.ok THEN Overlay(m, b.pairs) ELSE m

\* style: the inline `style` attribute, written over m
ApplyInline(ns, n, m) ==
    IF ns[n].kind = "Element" /\ K_attr_style \in DOMAIN ns[n].attributes
    THEN InlinePairs(m, Body(ns[n].attributes[K_attr_style]))
    ELSE m

\* style: seed, matching rules, inline style: the cascaded style of n
Cascaded(ns, st, rs, n) ==
    ApplyInline(ns, n, ApplyRules(ns, rs, n, 1, InheritedStyleMap(ns, st, n)))

\* A percentage taken of the root default whatever the parent
ParentFontSizeDefault(ns, st, n) == INHERITED_PROPERTIES[K_size]

\* style: the font size the percentage is taken of
ParentFontSize(ns, st, n) ==
    IF ns[n].parent = NoNode THEN INHERITED_PROPERTIES[K_size]
    ELSE st[ns[n].parent][K_size]

\* style: `parent_x * node_pct` written back as pixels
ResolvedPercent(m, node_pct, parent_x) ==
    IF ~node_pct.ok \/ ~parent_x.ok THEN [panic |-> TRUE, style |-> m]
    ELSE [panic |-> FALSE,
          style |-> MapInsert(m, K_size,
              FormatF32((parent_x.value * (node_pct.value \div 100)) \div Scale)
                \o <<"p","x">>)]

\* style: the percentage font size resolved against the parent's
ResolvePercent(m, parent_font_size) ==
    IF EndsWithPercent(m[K_size])
    THEN ResolvedPercent(m, ParseF32(RemoveChar(m[K_size], "%")),
                         ParseF32(RemovePx(parent_font_size)))
    ELSE [panic |-> FALSE, style |-> m]

\* style, for one node: [panic, style]
StyleOf(ns, st, rs, n) ==
    ResolvePercent(Cascaded(ns, st, rs, n), ParentFontSize(ns, st, n))

-----------------------------------------------------------------------------
(* The tab as a state machine (tab.rs).  load() parses the page, fetches   *)
(* the linked sheets, sorts the rules and runs style() over the tree; each *)
(* call of style() on one node is a step.                                  *)

\* How many rules one linked sheet is made of
MaxRules == 2

\* The rules linked sheets are made of
L_p_red == <<"p","{","c","o","l","o","r",":","r","e","d","}">>
L_p_blue == <<"p"," ","{","c","o","l","o","r",":","b","l","u","e","}">>
L_div_p_red == <<"d","i","v"," ","p"," ","{","c","o","l","o","r",":","r","e","d","}">>
L_div_p_green == <<"d","i","v"," ","p","{","c","o","l","o","r",":","g","r","e","e","n",";","}">>
L_div_double == <<"d","i","v","{","f","o","n","t","-","s","i","z","e",":","2","0","0","%","}">>
L_p_half == <<"p","{","f","o","n","t","-","s","i","z","e",":","5","0","%","}">>
L_p_bold == <<"p","{","f","o","n","t","-","w","e","i","g","h","t",":","b","o","l","d",";","f","o","n","t","-","s","t","y","l","e",":","i","t","a","l","i","c","}">>
L_div_big == <<"d","i","v","{","f","o","n","t","-","s","i","z","e",":","b","i","g","}">>
RulePieces == { L_p_red, L_p_blue, L_div_p_red, L_div_p_green,
                L_div_double, L_p_half, L_p_bold, L_div_big }

RECURSIVE SheetTexts(_)
\* Every concatenation of at most n rules
SheetTexts(n) ==
    IF n = 0 THEN { <<>> }
    ELSE SheetTexts(n - 1)
           \cup { t \o piece : t \in SheetTexts(n - 1), piece \in RulePieces }

\* What url.request() gives for a linked sheet: its text, or an error
FetchResults ==
    { [ok |-> FALSE, text |-> <<>>] }
      \cup { [ok |-> TRUE, text |-> t] : t \in SheetTexts(MaxRules) }

\* The embedded sheet assets/browser.css, which is not part of the source
\* tree: either empty or one rule
DefaultSheetTexts == { <<>>, <<"p","{","c","o","l","o","r",":","g","r","a","y","}">> }

\* The pages, each a sequence of pieces of markup
G_link == <<"<","l","i","n","k"," ","r","e","l","=","s","t","y","l","e","s","h","e","e","t"," ","h","r","e","f","=","s",">">>
G_p == <<"<","p",">">>
G_p_blue == <<"<","p"," ","s","t","y","l","e","=","\"","c","o","l","o","r",":","b","l","u","e","\"",">">>
G_p_bad_blue == <<"<","p"," ","s","t","y","l","e","=","\"","b","a","d",";","c","o","l","o","r",":","b","l","u","e","\"",">">>
G_p_big_blue == <<"<","p"," ","s","t","y","l","e","=","\"","f","o","n","t","-","s","i","z","e",":","1","5","0","%",";","c","o","l","o","r",":","b","l","u","e","\"",">">>
G_p_half == <<"<","p"," ","s","t","y","l","e","=","f","o","n","t","-","s","i","z","e",":","5","0","%",">">>
G_div == <<"<","d","i","v",">">>
G_div_double == <<"<","d","i","v"," ","s","t","y","l","e","=","f","o","n","t","-","s","i","z","e",":","2","0","0","%",">">>
G_x == <<"x","<","/","p",">">>
G_y == <<"y">>
G_end_div == <<"<","/","d","i","v",">">>
Pages ==
    { <<G_p, G_x>>,
      <<G_link, G_p, G_x>>,
      <<G_link, G_p_blue, G_x>>,
      <<G_link, G_p_bad_blue, G_x>>,
      <<G_link, G_div, G_y, G_p, G_x, G_end_div>>,
      <<G_link, G_div_double, G_p_half, G_x, G_end_div>>,
      <<G_link, G_div, G_p_big_blue, G_x, G_y, G_end_div>> }

\* Selector::priority of a rule: cascade_priority
CascadePriority(rule) == Priority(rule.selector)

RECURSIVE InsertSorted(_, _)
\* A sort that puts rule r before the rules of the same priority
InsertSortedBefore(sorted, r) ==
    IF sorted = <<>> THEN <<r>>
    ELSE IF CascadePriority(sorted[Len(sorted)]) < CascadePriority(r)
         THEN Append(sorted, r)
         ELSE Append(InsertSorted(SubSeq(sorted, 1, Len(sorted) - 1), r),
                     sorted[Len(sorted)])

\* sort_by: rule r put behind the rules of the same or a lower priority
InsertSorted(sorted, r) ==
    IF sorted = <<>> THEN <<r>>
    ELSE IF CascadePriority(sorted[Len(sorted)]) <= CascadePriority(r)
         THEN Append(sorted, r)
         ELSE Append(InsertSorted(SubSeq(sorted, 1, Len(sorted) - 1), r),
                     sorted[Len(sorted)])

RECURSIVE SortFrom(_, _, _)
\* sort_by: the rules rs[i..] put into sorted one after the other
SortFrom(rs, i, sorted) ==
    IF i > Len(rs) THEN sorted
    ELSE SortFrom(rs, i + 1, InsertSorted(sorted, rs[i]))

\* rules.sort_by(cascade_priority): stable, ascending
SortByPriority(rs) == SortFrom(rs, 1, <<>>)

\* load: is node n a `<link rel=stylesheet href=..>`
IsStyleLink(node) ==
    /\ node.kind = "Element"
    /\ node.tag = <<"l","i","n","k">>
    /\ <<"r","e","l">> \in DOMAIN node.attributes
    /\ node.attributes[<<"r","e","l">>] = <<"s","t","y","l","e","s","h","e","e","t">>
    /\ <<"h","r","e","f">> \in DOMAIN node.attributes

\* load: the hrefs of the style links, in tree_to_vec order
Links(ns, r) ==
    SelectSeq([i \in 1..Len(TreeToVec(ns, r)) |-> ns[TreeToVec(ns, r)[i]]],
              IsStyleLink)

\* load: `CssParser::new(&*bd).parse().unwrap_or(vec![])` of a fetched
\* sheet, nothing for a failed request
FetchedRules(f) ==
    IF f.ok /\ Parse(f.text).ok THEN Parse(f.text).rules ELSE <<>>

RECURSIVE AppendFetched(_, _, _)
\* load: the loop over the links
AppendFetched(rs, fetched, i) ==
    IF i > Len(fetched) THEN rs
    ELSE AppendFetched(rs \o FetchedRules(fetched[i]), fetched, i + 1)

\* Tab::default, with the embedded sheet parsed
TabNew(text) ==
    /\ default_sheet = Parse(text).rules
    /\ dom = <<>>
    /\ dom_root = NoNode
    /\ styles = <<>>
    /\ linked = <<>>
    /\ sheet = <<>>
    /\ pending = <<>>
    /\ tpc = "new"
    /\ document = None
    /\ draw_commands = <<>>
    /\ fonts = None
    /\ scroll_y = 0

TabInit ==
    /\ HtmlNew
    /\ CssIdle
    /\ ComposerIdle
    /\ UrlIdle
    /\ AttrIdle
    /\ \E text \in DefaultSheetTexts : TabNew(text)

\* The scanner of a new HtmlParser
NewScanner ==
    [buffer |-> <<>>, in_tag |-> FALSE,
     p |-> [unfinished |-> <<>>, nodes |-> <<>>, panic |-> FALSE]]

RECURSIVE ParsePieces(_, _, _)
\* parse: the character loop over the pieces page[i..] of the body
ParsePieces(s, page, i) ==
    IF s.p.panic \/ i > Len(page) THEN s
    ELSE ParsePieces(ParseChars(s, page[i], 1), page, i + 1)

\* HtmlParser { body, unfinished: vec![] }.parse()
ParsePage(page) == ParseEnd(ParsePieces(NewScanner, page, 1))

\* load: parse() has returned r, or panicked
Loaded(r) ==
    /\ draw_commands' = <<>>
    /\ scroll_y' = 0
    /\ UNCHANGED <<document, fonts>>
    /\ IF r.p.panic
       THEN /\ tpc' = "panic"
            /\ UNCHANGED <<default_sheet, dom, dom_root, styles, linked,
                           sheet, pending>>
       ELSE /\ dom' = r.p.nodes
            /\ dom_root' = r.root
            /\ styles' = [n \in 1..Len(r.p.nodes) |-> EmptyMap]
            /\ sheet' = default_sheet
            /\ pending' = <<>>
            /\ tpc' = "links"
            /\ UNCHANGED <<default_sheet, linked>>

\* load: the page is fetched and parsed
Load(page) ==
    /\ tpc = "new"
    /\ Loaded(ParsePage(page))
    /\ UNCHANGED <<htmlvars, cssvars, composervars, urlvars, attrvars>>

\* load: the request for the page has failed
LoadFailed ==
    /\ tpc = "new"
    /\ tpc' = "failed"
    /\ draw_commands' = <<>>
    /\ scroll_y' = 0
    /\ UNCHANGED <<document, fonts>>
    /\ UNCHANGED <<default_sheet, dom, dom_root, styles, linked, sheet,
                   pending>>
    /\ UNCHANGED <<htmlvars, cssvars, composervars, urlvars, attrvars>>

\* load: with the linked sheets fetched, the rules are sorted and style()
\* is called on the root
Fetched(fetched) ==
    /\ linked' = fetched
    /\ sheet' = SortByPriority(AppendFetched(sheet, fetched, 1))
    /\ pending' = <<dom_root>>
    /\ tpc' = "style"
    /\ UNCHANGED <<default_sheet, dom, dom_root, styles>>
    /\ UNCHANGED <<document, draw_commands, fonts, scroll_y>>
    /\ UNCHANGED <<htmlvars, cssvars, composervars, urlvars, attrvars>>

\* load: every linked sheet is requested, and parsed when the request
\* succeeds
Fetch ==
    /\ tpc = "links"
    /\ \E fetched \in [1..Len(Links(dom, dom_root)) -> FetchResults] :
           Fetched(fetched)

\* LayoutNode::new_document
NewDocument(n) ==
    [content |-> "Document", node |-> n, position |-> None, size |-> None,
     children |-> <<>>]

\* style: node n has been given r.style, or the call has panicked; after
\* the last call load() makes the document of the layout tree
Styled(n, r) ==
    IF r.panic
    THEN /\ tpc' = "panic"
         /\ UNCHANGED <<styles, pending, document>>
    ELSE /\ styles' = [styles EXCEPT ![n] = r.style]
         /\ pending' = dom[n].children \o Tail(pending)
         /\ tpc' = IF dom[n].children \o Tail(pending) = <<>>
                   THEN "styled" ELSE "style"
         /\ document' = IF dom[n].children \o Tail(pending) = <<>>
                        THEN Some(NewDocument(dom_root)) ELSE document

\* style: the next call, on one node; its children are styled after it
StyleStep ==
    /\ tpc = "style"
    /\ pending # <<>>
    /\ Styled(Head(pending), StyleOf(dom, styles, sheet, Head(pending)))
    /\ UNCHANGED <<default_sheet, dom, dom_root, linked, sheet>>
    /\ UNCHANGED <<draw_commands, fonts, scroll_y>>
    /\ UNCHANGED <<htmlvars, cssvars, composervars, urlvars, attrvars>>

TabNext ==
    \/ \E page \in Pages : Load(page)
    \/ LoadFailed
    \/ Fetch
    \/ StyleStep

TabSpec == TabInit /\ [][TabNext]_vars

-----------------------------------------------------------------------------
(* Layout (layout.rs)                                                      *)
(*                                                                         *)
(* Lengths are whole numbers of pixels.  The font metrics that the code    *)
(* asks the egui Context for are whole and multiples of four, so that the  *)
(* products with 1.25 are exact in f32.  A galley is what layout_no_wrap   *)
(* gives for one word: [text, width, height, ascent, font_height].  A      *)
(* layout node is a record with its children inside it; the parent and     *)
(* previous links of the code are the place of the record in its parent.   *)

HSTEP == 13
VSTEP == 17
WIDTH == 800
HEIGHT == 600
SCROLL_STEP == 100

BLOCK_ELEMENTS ==
    { <<"h","t","m","l">>, <<"b","o","d","y">>, <<"a","r","t","i","c","l","e">>, <<"s","e","c","t","i","o","n">>, <<"n","a","v">>, <<"a","s","i","d","e">>,
      <<"h","1">>, <<"h","2">>, <<"h","3">>, <<"h","4">>, <<"h","5">>, <<"h","6">>, <<"h","g","r","o","u","p">>, <<"h","e","a","d","e","r">>,
      <<"f","o","o","t","e","r">>, <<"a","d","d","r","e","s","s">>, <<"p">>, <<"h","r">>, <<"p","r","e">>, <<"b","l","o","c","k","q","u","o","t","e">>,
      <<"o","l">>, <<"u","l">>, <<"m","e","n","u">>, <<"l","i">>, <<"d","l">>, <<"d","t">>, <<"d","d">>, <<"f","i","g","u","r","e">>,
      <<"f","i","g","c","a","p","t","i","o","n">>, <<"m","a","i","n">>, <<"d","i","v">>, <<"t","a","b","l","e">>, <<"f","o","r","m">>, <<"f","i","e","l","d","s","e","t">>,
      <<"l","e","g","e","n","d">>, <<"d","e","t","a","i","l","s">>, <<"s","u","m","m","a","r","y">> }

\* Vec2::new(x, y)
Vec2(x, y) == [x |-> x, y |-> y]

\* Option::unwrap on a value that is Some
Unwrap(o) == o[1]

\* f32::max of two numbers
Larger(a, b) == IF a > b THEN a ELSE b

\* LayoutNode::new_text, with the relative x set by word()
NewText(n, galley, color, x) ==
    [content |-> "Text", node |-> n, galley |-> galley, color |-> color,
     position |-> Some(Vec2(x, 0)),
     size |-> Some(Vec2(galley.width, galley.height)),
     children |-> <<>>]

RECURSIVE MaxAscent(_, _)
\* flush_line: the largest ascent of the first glyphs of texts[i..]
MaxAscent(texts, i) ==
    IF i > Len(texts) THEN 0
    ELSE Larger(texts[i].galley.ascent, MaxAscent(texts, i + 1))

RECURSIVE MaxDescent(_, _)
\* flush_line: the largest descent of the first glyphs of texts[i..]
MaxDescent(texts, i) ==
    IF i > Len(texts) THEN 0
    ELSE Larger(texts[i].galley.font_height - texts[i].galley.ascent,
                MaxDescent(texts, i + 1))

\* A text of the line left where word() has put it, relative to the line
PlacedTextRelative(txt, block_pos, line_y, baseline_offset) == txt

\* flush_line: a text of the line moved to its absolute position
PlacedText(txt, block_pos, line_y, baseline_offset) ==
    [txt EXCEPT !.position =
        Some(Vec2(block_pos.x + Unwrap(txt.position).x,
                  line_y + (baseline_offset - txt.galley.ascent)))]

\* flush_line: LayoutNode::new_line with its position, size, metrics and
\* children set
NewLine(n, texts, block_pos, line_y, width, max_ascent, max_descent) ==
    [content |-> "Line", node |-> n,
     max_ascent |-> max_ascent, max_descent |-> max_descent,
     position |-> Some(Vec2(block_pos.x, line_y)),
     size |-> Some(Vec2(width, ((max_ascent + max_descent) * 5) \div 4)),
     children |-> [i \in 1..Len(texts) |->
                     PlacedText(texts[i], block_pos, line_y,
                                (max_ascent * 5) \div 4)]]

\* A flush that leaves the horizontal cursor behind the last word
FlushTextsKeepsCursor(c, line) ==
    [c EXCEPT !.children = Append(c.children, line),
              !.current_line_nodes = <<>>,
              !.cursor_y = c.cursor_y + Unwrap(line.size).y]

\* flush_line, with texts waiting: the line is added to the block and the
\* cursor moved to the start of the next line
FlushTexts(c, line) ==
    [c EXCEPT !.children = Append(c.children, line),
              !.current_line_nodes = <<>>,
              !.cursor_x = 0,
              !.cursor_y = c.cursor_y + Unwrap(line.size).y]

\* flush_line
FlushLine(c) ==
    IF c.current_line_nodes = <<>> THEN c
    ELSE FlushTexts(c,
             NewLine(c.block_html_node, c.current_line_nodes,
                     IF c.outer_position = None THEN Vec2(0, 0)
                     ELSE Unwrap(c.outer_position),
                     (IF c.outer_position = None THEN 0
                      ELSE Unwrap(c.outer_position).y) + c.cursor_y,
                     Unwrap(c.outer_size).x,
                     MaxAscent(c.current_line_nodes, 1),
                     MaxDescent(c.current_line_nodes, 1)))

\* A wrapping test that leaves the width of the word out
WrapsWithoutWord(c, text_width) == c.cursor_x > Unwrap(c.outer_size).x

\* word: `cursor_x + text_width > outer_size.x`
Wraps(c, text_width) == c.cursor_x + text_width > Unwrap(c.outer_size).x

\* word: the text node is put at the cursor and the cursor moved behind it
PlaceWord(c, n, galley, color) ==
    [c EXCEPT !.current_line_nodes =
                  Append(c.current_line_nodes,
                         NewText(n, galley, color, c.cursor_x)),
              !.cursor_x = c.cursor_x + galley.width + c.space_width]

\* word, from the measured galley on
ComposeWord(c, n, galley, color) ==
    PlaceWord(IF Wraps(c, galley.width) THEN FlushLine(c) ELSE c,
              n, galley, color)

\* update_font: the width of a space in the font
UpdateFont(c, space_width) == [c EXCEPT !.space_width = space_width]

\* An open_tag that flushes the line for every tag
OpenTagFlushes(c, tag) == FlushLine(c)

\* open_tag
OpenTag(c, tag) == IF tag = <<"b","r">> THEN FlushLine(c) ELSE c

\* close_tag: the line is flushed before the cursor is moved down
ParagraphEnd(c) == [c EXCEPT !.cursor_y = c.cursor_y + VSTEP]

\* close_tag
CloseTag(c, tag) == IF tag = <<"p">> THEN ParagraphEnd(FlushLine(c)) ELSE c

\* A composer whose cursor starts one HSTEP into the block
NewComposerIndented(n, position, size) ==
    [cursor_x |-> HSTEP, cursor_y |-> 0, space_width |-> 0,
     children |-> <<>>, block_html_node |-> n,
     outer_position |-> position, outer_size |-> size,
     current_line_nodes |-> <<>>, panic |-> FALSE]

\* layout, Inline: the BlockComposer of a new block for node n
NewComposer(n, position, size) ==
    [cursor_x |-> 0, cursor_y |-> 0, space_width |-> 0,
     children |-> <<>>, block_html_node |-> n,
     outer_position |-> position, outer_size |-> size,
     current_line_nodes |-> <<>>, panic |-> FALSE]

\* The colors csscolorparser::parse knows by name, of those that occur here
NamedColors == { <<"b","l","a","c","k">>, <<"r","e","d">>, <<"b","l","u","e">>, <<"g","r","e","e","n">>, <<"g","r","a","y">>, <<"t","r","a","n","s","p","a","r","e","n","t">> }

K_background == <<"b","a","c","k","g","r","o","u","n","d","-","c","o","l","o","r">>
V_transparent == <<"t","r","a","n","s","p","a","r","e","n","t">>

\* style.get(k).unwrap_or(default)
StyleGet(m, k, default) == IF k \in DOMAIN m THEN m[k] ELSE default

\* layout_no_wrap: the galley of a word in the font table
Measure(table, word) ==
    [text |-> word, width |-> table.width[word], height |-> 16,
     ascent |-> 12, font_height |-> 16]

\* word: the font size and the color of the node are parsed with `unwrap`
WordParses(m) ==
    /\ ParseF32(RemovePx(StyleGet(m, K_size, V_16px))).ok
    /\ StyleGet(m, K_color, V_black) \in NamedColors

\* word
WordOf(c, m, table, n, word) ==
    IF ~WordParses(m) THEN [c EXCEPT !.panic = TRUE]
    ELSE ComposeWord(UpdateFont(c, table.space), n, Measure(table, word),
                     StyleGet(m, K_color, V_black))

RECURSIVE Words(_, _, _, _, _, _)
\* recurse, Text: word() on the words[i..] of the text of node n
Words(c, m, table, n, words, i) ==
    IF c.panic \/ i > Len(words) THEN c
    ELSE Words(WordOf(c, m, table, n, words[i]), m, table, n, words, i + 1)

\* recurse: close_tag after the children, unless one of them has panicked
RecurseEnd(c, tag) == IF c.panic THEN c ELSE CloseTag(c, tag)

RECURSIVE Recurse(_, _, _, _, _)
RECURSIVE RecurseAll(_, _, _, _, _, _)

\* recurse
Recurse(c, ns, st, table, n) ==
    IF c.panic THEN c
    ELSE IF ns[n].kind = "Element"
    THEN RecurseEnd(RecurseAll(OpenTag(c, ns[n].tag), ns, st, table,
                               ns[n].children, 1),
                    ns[n].tag)
    ELSE Words(c, st[n], table, n, SplitWhitespace(ns[n].text), 1)

\* recurse: the loop over the children kids[i..]
RecurseAll(c, ns, st, table, kids, i) ==
    IF c.panic \/ i > Len(kids) THEN c
    ELSE RecurseAll(Recurse(c, ns, st, table, kids[i]), ns, st, table,
                    kids, i + 1)

\* layout_mode, Element: a child is an element of BLOCK_ELEMENTS
HasBlockChild(ns, n) ==
    \E i \in 1..Len(ns[n].children) :
        /\ ns[ns[n].children[i]].kind = "Element"
        /\ ns[ns[n].children[i]].tag \in BLOCK_ELEMENTS

\* A mode that is Inline for every element with a child
LayoutModeInlineFirst(ns, n) ==
    IF ns[n].kind = "Element" /\ ns[n].children = <<>> THEN "Block"
    ELSE "Inline"

\* layout_mode
LayoutMode(ns, n) ==
    IF ns[n].kind = "Element"
    THEN IF HasBlockChild(ns, n) THEN "Block"
         ELSE IF ns[n].children # <<>> THEN "Inline"
         ELSE "Block"
    ELSE "Inline"

\* A height that leaves the children out
NoHeight(blocks, i) == 0

RECURSIVE TotalHeight(_, _)
\* layout, Block: the sum of the heights of the children blocks[i..]
TotalHeight(blocks, i) ==
    IF i > Len(blocks) THEN 0
    ELSE Unwrap(blocks[i].size).y + TotalHeight(blocks, i + 1)

\* layout, Block: the block of node n with its children laid out
BlockOfBlocks(n, x, y, width, blocks) ==
    [content |-> "Block", node |-> n, previous |-> 0, cursor_y |-> 0,
     position |-> Some(Vec2(x, y)),
     size |-> Some(Vec2(width, TotalHeight(blocks, 1))),
     children |-> blocks,
     panic |-> \E i \in 1..Len(blocks) : blocks[i].panic]

\* layout, Inline: the block of node n with the lines of composer c
BlockOfLines(n, x, y, width, c) ==
    [content |-> "Block", node |-> n, previous |-> 0,
     cursor_y |-> c.cursor_y,
     position |-> Some(Vec2(x, y)),
     size |-> Some(Vec2(width, c.cursor_y)),
     children |-> c.children,
     panic |-> c.panic]

\* A block put at the top of its parent whatever is before it
BlockYOfParent(parent_y, previous) == parent_y

\* layout, Block: where a block goes: below its previous sibling, or at the
\* top of its parent
BlockY(parent_y, previous) ==
    IF previous = None THEN parent_y
    ELSE Unwrap(Unwrap(previous).position).y + Unwrap(Unwrap(previous).size).y

\* The last of the blocks, as the previous sibling of the next
PreviousOf(blocks) == IF blocks = <<>> THEN None ELSE Some(blocks[Len(blocks)])

\* new_block(child, parent, previous): the `previous` link of a block, as
\* the place of that sibling among the children of the parent (0: None)
WithPrevious(block, blocks) == [block EXCEPT !.previous = Len(blocks)]

\* Only the children that are elements of BLOCK_ELEMENTS
BlockLevelChildren(ns, n) ==
    SelectSeq(ns[n].children,
              LAMBDA k : ns[k].kind = "Element" /\ ns[k].tag \in BLOCK_ELEMENTS)

\* layout, Block: `for child in inner_node_ptr.borrow().children`
ChildrenOf(ns, n) == ns[n].children

RECURSIVE LayoutBlock(_, _, _, _, _, _, _)
RECURSIVE LayoutBlocks(_, _, _, _, _, _, _, _, _)

\* layout, Block node: the block of node n, in a parent at x, parent_y of
\* the given width, behind the sibling `previous`
LayoutBlock(ns, st, table, n, x, y, width) ==
    IF LayoutMode(ns, n) = "Block"
    THEN BlockOfBlocks(n, x, y, width,
             LayoutBlocks(ns, st, table, ChildrenOf(ns, n), 1, x, y, width,
                          <<>>))
    ELSE BlockOfLines(n, x, y, width,
             FlushLine(Recurse(
                 UpdateFont(NewComposer(n, Some(Vec2(x, y)),
                                        Some(Vec2(width, 0))),
                            table.space),
                 ns, st, table, n)))

\* layout, Block: the children kids[i..] laid out one below the other,
\* behind the blocks that are done; a panic ends the layout
LayoutBlocks(ns, st, table, kids, i, x, parent_y, width, blocks) ==
    IF i > Len(kids) \/ (blocks # <<>> /\ blocks[Len(blocks)].panic)
    THEN blocks
    ELSE LayoutBlocks(ns, st, table, kids, i + 1, x, parent_y, width,
             Append(blocks,
                    WithPrevious(
                        LayoutBlock(ns, st, table, kids[i], x,
                                    BlockY(parent_y, PreviousOf(blocks)),
                                    width),
                        blocks)))

\* layout, Document: new_block(.., None, ..): the block of the document
\* has no previous sibling
NoPrevious(doc) == None

\* layout, Document: the document with its block added
DocumentOf(doc, block) ==
    [doc EXCEPT !.position = Some(Vec2(HSTEP, VSTEP)),
                !.size = Some(Vec2(WIDTH - 2 * HSTEP, Unwrap(block.size).y)),
                !.children = Append(doc.children, block)]

\* layout, Document node
LayoutDocument(doc, ns, st, table) ==
    DocumentOf(doc,
        LayoutBlock(ns, st, table, doc.node, HSTEP,
                    BlockY(VSTEP, NoPrevious(doc)), WIDTH - 2 * HSTEP))

\* A rectangle for every block, whatever its background is
PaintBlockAlways(node, bgcolor) ==
    << [command |-> "DrawRect",
        top_left |-> Unwrap(node.position),
        bottom_right |-> Vec2(Unwrap(node.position).x + Unwrap(node.size).x,
                              Unwrap(node.position).y + Unwrap(node.size).y),
        color |-> bgcolor] >>

\* paint, Block: the rectangle of a background that is not transparent
PaintBlock(node, bgcolor) ==
    IF bgcolor \in NamedColors /\ bgcolor # V_transparent
    THEN << [command |-> "DrawRect",
             top_left |-> Unwrap(node.position),
             bottom_right |-> Vec2(Unwrap(node.position).x + Unwrap(node.size).x,
                                   Unwrap(node.position).y + Unwrap(node.size).y),
             color |-> bgcolor] >>
    ELSE <<>>

\* paint
Paint(node, ns, st) ==
    IF node.content = "Block"
    THEN IF ns[node.node].kind = "Element"
         THEN PaintBlock(node, StyleGet(st[node.node], K_background,
                                        V_transparent))
         ELSE <<>>
    ELSE IF node.content = "Text"
    THEN << [command |-> "DrawText", x |-> Unwrap(node.position).x,
             y |-> Unwrap(node.position).y, galley |-> node.galley] >>
    ELSE <<>>

RECURSIVE PaintTree(_, _, _)
RECURSIVE PaintAll(_, _, _, _)

\* A walk that paints a node after its children
PaintTreeChildrenFirst(node, ns, st) ==
    PaintAll(node.children, 1, ns, st) \o Paint(node, ns, st)

\* paint_tree
PaintTree(node, ns, st) ==
    Paint(node, ns, st) \o PaintAll(node.children, 1, ns, st)

\* paint_tree: the loop over the children kids[i..]
PaintAll(kids, i, ns, st) ==
    IF i > Len(kids) THEN <<>>
    ELSE PaintTree(kids[i], ns, st) \o PaintAll(kids, i + 1, ns, st)

-----------------------------------------------------------------------------
(* The composer of one inline block as a state machine (layout.rs).        *)
(* recurse() walks the subtree of the block and calls open_tag, word and   *)
(* close_tag; each call is a step, and what the subtree holds is whatever  *)
(* the steps are.  The galley of a word and the width of a space come from *)
(* the font metrics, so they are inputs of a step.                         *)

\* How many tags and words the subtree of the block holds
MaxWalk == 4

\* The galleys of words: four widths in a small font, one in a large font
Galleys ==
    { [text |-> <<"w">>, width |-> w, height |-> 16, ascent |-> 12,
       font_height |-> 16] : w \in { 200, 387, 400, 800 } }
      \cup { [text |-> <<"W">>, width |-> 400, height |-> 32, ascent |-> 24,
              font_height |-> 32] }

\* The widths of a space
SpaceWidths == { 0, 10 }

\* layout, Document and Block: the first block is as wide as the window
\* less the margins, and every block is as wide as its parent
LineInit ==
    /\ HtmlNew
    /\ CssIdle
    /\ TabIdle
    /\ UrlIdle
    /\ AttrIdle
    /\ composer = NewComposer(NoNode, Some(Vec2(HSTEP, VSTEP)),
                              Some(Vec2(WIDTH - 2 * HSTEP, 0)))
    /\ walked = 0
    /\ lpc = "recurse"

\* recurse: one more call made, which leaves the composer as c
Walk(c) ==
    /\ lpc = "recurse"
    /\ walked < MaxWalk
    /\ composer' = c
    /\ walked' = walked + 1
    /\ lpc' = "recurse"
    /\ UNCHANGED <<htmlvars, cssvars, tabvars, urlvars, attrvars>>

\* word, for a word whose node has a font size and a color that parse
WordStep ==
    \E galley \in Galleys, space_width \in SpaceWidths :
        Walk(ComposeWord(UpdateFont(composer, space_width), NoNode, galley,
                         V_black))

\* word, for a word whose node has a font size or a color that does not
\* parse: `unwrap` panics
WordPanics ==
    /\ lpc = "recurse"
    /\ walked < MaxWalk
    /\ lpc' = "panic"
    /\ UNCHANGED <<composer, walked>>
    /\ UNCHANGED <<htmlvars, cssvars, tabvars, urlvars, attrvars>>

\* open_tag
OpenTagStep == \E tag \in { <<"b","r">>, <<"b">> } : Walk(OpenTag(composer, tag))

\* close_tag
CloseTagWalk == \E tag \in { <<"p">>, <<"b">> } : Walk(CloseTag(composer, tag))

\* layout, Inline: the block after recurse() has returned: the last line
\* is flushed and the height of the block is where the cursor is
Composed(c) ==
    [c EXCEPT !.outer_size = Some(Vec2(Unwrap(c.outer_size).x, c.cursor_y))]

\* layout, Inline: recurse() has returned
EndOfBlock ==
    /\ lpc = "recurse"
    /\ composer' = Composed(FlushLine(composer))
    /\ lpc' = "done"
    /\ UNCHANGED walked
    /\ UNCHANGED <<htmlvars, cssvars, tabvars, urlvars, attrvars>>

LineNext ==
    \/ WordStep
    \/ WordPanics
    \/ OpenTagStep
    \/ CloseTagWalk
    \/ EndOfBlock

LineSpec == LineInit /\ [][LineNext]_vars

-----------------------------------------------------------------------------
(* The tab drawing a loaded page (tab.rs, layout.rs).  The machine starts  *)
(* where load() has returned; each frame is one call of draw().            *)

\* How many times one document is laid out
MaxFrames == 3

\* The pieces the pages of the layout are made of
Y_p_abca == <<"<","p",">","a"," ","b"," ","c"," ","a","<","/","p",">">>
Y_p_br == <<"<","p",">","a","<","b","r",">","b"," ","c","<","/","p",">">>
Y_div_mixed == <<"<","d","i","v",">","a","<","p",">","b"," ","c","<","/","p",">","c","<","/","d","i","v",">">>
Y_p_empty == <<"<","p",">","<","/","p",">">>
Y_div_pp == <<"<","d","i","v",">","<","p",">","a"," ","b","<","/","p",">","<","p",">","c","<","/","p",">","<","/","d","i","v",">">>
Y_p_b_empty == <<"<","p",">","<","b",">","<","/","b",">","<","/","p",">">>
Y_p_red == <<"<","p"," ","s","t","y","l","e","=","b","a","c","k","g","r","o","u","n","d","-","c","o","l","o","r",":","r","e","d",">","a"," ","<","b",">","b"," ","c","<","/","b",">"," ","a","<","/","p",">">>
Y_p_red_empty == <<"<","d","i","v",">","<","p"," ","s","t","y","l","e","=","b","a","c","k","g","r","o","u","n","d","-","c","o","l","o","r",":","r","e","d",">","<","/","p",">","<","b",">","<","/","b",">","<","/","d","i","v",">">>
Y_div_all == <<"<","d","i","v",">","<","p",">","<","/","p",">","<","p",">","a"," ","b","<","/","p",">","<","/","d","i","v",">">>
Y_div_span == <<"<","d","i","v",">","<","s","p","a","n",">","a","<","/","s","p","a","n",">","<","p",">","b","<","/","p",">","<","/","d","i","v",">">>
Y_div_big == <<"<","d","i","v"," ","s","t","y","l","e","=","f","o","n","t","-","s","i","z","e",":","b","i","g",">","<","p"," ","s","t","y","l","e","=","f","o","n","t","-","s","i","z","e",":","5","0","%",">","a","<","/","p",">","<","/","d","i","v",">">>
Y_p_big == <<"<","p"," ","s","t","y","l","e","=","f","o","n","t","-","s","i","z","e",":","b","i","g",">","a","<","/","p",">">>
Y_p_sky == <<"<","p"," ","s","t","y","l","e","=","c","o","l","o","r",":","s","k","y",">","a","<","/","p",">">>

\* The pages that are laid out
LayoutPages ==
    { <<Y_p_abca>>, <<Y_p_br>>, <<Y_div_mixed>>, <<Y_p_empty>>,
      <<Y_div_pp>>, <<Y_p_b_empty>>, <<Y_p_red>>, <<Y_p_red_empty>>,
      <<Y_p_sky>>, <<Y_div_all>>, <<Y_div_span>>,
      <<Y_div_big>>, <<Y_p_big>>, <<Y_p_empty, Y_p_b_empty>> }

\* The words of the pages
PageWords == { <<"a">>, <<"b">>, <<"c">> }

\* What the fonts of the egui Context give: the width of each word and of
\* a space
FontTables ==
    { [width |-> w, space |-> s] :
        w \in { [word \in PageWords |-> 200], [word \in PageWords |-> 400],
                [word \in PageWords |-> IF word = <<"a">> THEN 400 ELSE 200] },
        s \in {0, 10} }

RECURSIVE StyleAll(_, _, _, _)
\* style, from the root down: the styles of the nodes in todo and below
\* written into st
StyleAll(ns, st, rs, todo) ==
    IF todo = <<>> THEN st
    ELSE StyleAll(ns,
                  [st EXCEPT ![Head(todo)] = StyleOf(ns, st, rs, Head(todo)).style],
                  rs, ns[Head(todo)].children \o Tail(todo))

RECURSIVE StylePanics(_, _, _, _)
\* style, from the root down: does the call on a node in todo or below panic
StylePanics(ns, st, rs, todo) ==
    /\ todo # <<>>
    /\ \/ StyleOf(ns, st, rs, Head(todo)).panic
       \/ StylePanics(ns,
              [st EXCEPT ![Head(todo)] = StyleOf(ns, st, rs, Head(todo)).style],
              rs, ns[Head(todo)].children \o Tail(todo))

\* style(root, rules) on the new tree of nodes ns: [panic, styles]
StyleTree(ns, rs, r) ==
    [panic |-> StylePanics(ns, [n \in 1..Len(ns) |-> EmptyMap], rs, <<r>>),
     styles |-> StyleAll(ns, [n \in 1..Len(ns) |-> EmptyMap], rs, <<r>>)]

\* The embedded sheets, parsed
DefaultSheets == { Parse(text).rules : text \in DefaultSheetTexts }

\* parse() of each page
PageTrees == [page \in LayoutPages |-> ParsePage(page)]

\* style() on the tree of each page, under each embedded sheet
PageStyles ==
    [page \in LayoutPages |->
        [rs \in DefaultSheets |->
            StyleTree(PageTrees[page].p.nodes, SortByPriority(rs),
                      PageTrees[page].root)]]

\* load: the page r is styled, and the document made, or style() panics
StyledPage(r, styled) ==
    IF styled.panic
    THEN /\ tpc' = "panic"
         /\ UNCHANGED <<dom, dom_root, styles, linked, sheet, pending,
                        document>>
    ELSE /\ dom' = r.p.nodes
         /\ dom_root' = r.root
         /\ styles' = styled.styles
         /\ linked' = <<>>
         /\ sheet' = SortByPriority(default_sheet)
         /\ pending' = <<>>
         /\ tpc' = "styled"
         /\ document' = Some(NewDocument(r.root))

\* load, Ok: the page r, which has no links, is parsed and styled and the
\* document made
LoadedPage(r, styled) ==
    /\ draw_commands' = <<>>
    /\ scroll_y' = 0
    /\ StyledPage(r, styled)

\* The tab is there: no call on it has panicked
TabAlive == tpc \in {"new", "styled", "failed"}

\* load: the tab goes to a page
Navigate(page) ==
    /\ TabAlive
    /\ LoadedPage(PageTrees[page], PageStyles[page][default_sheet])
    /\ UNCHANGED <<default_sheet, fonts>>
    /\ UNCHANGED <<htmlvars, cssvars, composervars, urlvars, attrvars>>

\* load, Err: the request for the page fails
NavigateFailed ==
    /\ TabAlive
    /\ tpc' = "failed"
    /\ draw_commands' = <<>>
    /\ scroll_y' = 0
    /\ UNCHANGED <<default_sheet, dom, dom_root, styles, linked, sheet,
                   pending, document, fonts>>
    /\ UNCHANGED <<htmlvars, cssvars, composervars, urlvars, attrvars>>

\* A call on a tab without a document that returns to its caller
ReturnsToCaller == "failed"

\* draw, scroll_down: `None => panic!("Browser document not initialized.")`
MissingDocument == "not_initialized"

\* draw: the layout has returned doc, or panicked
Drawn(doc) ==
    IF doc.children[Len(doc.children)].panic
    THEN /\ tpc' = "panic"
         /\ UNCHANGED <<document, draw_commands>>
    ELSE /\ document' = Some(doc)
         /\ draw_commands' = PaintTree(doc, dom, styles)
         /\ UNCHANGED tpc

\* draw
Draw ==
    /\ TabAlive
    /\ IF draw_commands = <<>>
       THEN IF document = None
            THEN /\ tpc' = MissingDocument
                 /\ UNCHANGED <<document, draw_commands>>
            ELSE /\ Len(Unwrap(document).children) < MaxFrames
                 /\ Drawn(LayoutDocument(Unwrap(document), dom, styles, fonts))
       ELSE UNCHANGED <<tpc, document, draw_commands>>
    /\ UNCHANGED <<default_sheet, dom, dom_root, styles, linked, sheet,
                   pending, fonts, scroll_y>>
    /\ UNCHANGED <<htmlvars, cssvars, composervars, urlvars, attrvars>>

\* f32::min
Smaller(a, b) == IF a <= b THEN a ELSE b

\* doc.size.unwrap_or(Vec2::ZERO).y
HeightOr0(doc) == IF doc.size = None THEN 0 ELSE Unwrap(doc.size).y

\* scroll_down, with a document: the offset is clamped and then raised
Scrolled(y, doc) ==
    Smaller(y + SCROLL_STEP, HeightOr0(doc) + 2 * VSTEP - HEIGHT) + SCROLL_STEP

\* scroll_down
ScrollDown ==
    /\ TabAlive
    /\ IF document = None
       THEN /\ tpc' = MissingDocument
            /\ UNCHANGED scroll_y
       ELSE /\ scroll_y' = Scrolled(scroll_y, Unwrap(document))
            /\ UNCHANGED tpc
    /\ UNCHANGED <<default_sheet, dom, dom_root, styles, linked, sheet,
                   pending, document, draw_commands, fonts>>
    /\ UNCHANGED <<htmlvars, cssvars, composervars, urlvars, attrvars>>

\* Tab::default, with the embedded sheet parsed and the fonts of the
\* egui Context
LayoutInit ==
    /\ HtmlNew
    /\ CssIdle
    /\ ComposerIdle
    /\ UrlIdle
    /\ AttrIdle
    /\ default_sheet \in DefaultSheets
    /\ fonts \in FontTables
    /\ dom = <<>>
    /\ dom_root = NoNode
    /\ styles = <<>>
    /\ linked = <<>>
    /\ sheet = <<>>
    /\ pending = <<>>
    /\ tpc = "new"
    /\ document = None
    /\ draw_commands = <<>>
    /\ scroll_y = 0

LayoutNext ==
    \/ Draw
    \/ ScrollDown
    \/ \E page \in LayoutPages : Navigate(page)
    \/ NavigateFailed

LayoutSpec == LayoutInit /\ [][LayoutNext]_vars

-----------------------------------------------------------------------------
(* URLs (url.rs).  A Url is [scheme, host, path, port]; a Result is        *)
(* [ok |-> TRUE, url |-> ...] or [ok |-> FALSE, err |-> message].          *)

RECURSIVE FindFrom(_, _, _)
\* str::find(&str) from the i-th character on: where sub starts, or 0
FindFrom(s, sub, i) ==
    IF i + Len(sub) - 1 > Len(s) THEN 0
    ELSE IF SubSeq(s, i, i + Len(sub) - 1) = sub THEN i
         ELSE FindFrom(s, sub, i + 1)

\* str::contains(&str)
ContainsStr(s, sub) == FindFrom(s, sub, 1) # 0

\* str::starts_with(&str)
StartsWithStr(s, sub) == Len(sub) <= Len(s) /\ SubSeq(s, 1, Len(sub)) = sub

\* str::splitn(2, sep).collect(): one piece, or the pieces before and after
\* the first sep
SplitN2(s, sep) ==
    IF ContainsStr(s, sep)
    THEN << SubSeq(s, 1, FindFrom(s, sep, 1) - 1),
            SubSeq(s, FindFrom(s, sep, 1) + Len(sep), Len(s)) >>
    ELSE << s >>

RECURSIVE RFind(_, _, _)
\* str::rfind(char), looking from the i-th character back: the place of the
\* last c, or 0
RFind(s, c, i) ==
    IF i = 0 THEN 0 ELSE IF s[i] = c THEN i ELSE RFind(s, c, i - 1)

\* The largest u16
U16_MAX == 65535

\* str::parse::<u16>(): an optional `+` and then digits, not above u16::MAX
ParseU16(s) ==
    LET digits == IF StartsWithStr(s, <<"+">>) THEN Tail(s) ELSE s
    IN  IF digits # <<>> /\ AllDigits(digits)
           /\ DigitsValue(digits) <= U16_MAX
        THEN Some(DigitsValue(digits))
        ELSE None

UrlOk(scheme, host, path, port) ==
    [ok |-> TRUE,
     url |-> [scheme |-> scheme, host |-> host, path |-> path, port |-> port]]

UrlErr(message) == [ok |-> FALSE, err |-> message]

\* Url::new, from the host on
UrlOfHost(scheme, host, path) ==
    IF Contains(host, ":")
    THEN IF ParseU16(SplitN2(host, <<":">>)[2]) = None
         THEN UrlErr("Invalid port number")
         ELSE UrlOk(scheme, SplitN2(host, <<":">>)[1], path,
                    Unwrap(ParseU16(SplitN2(host, <<":">>)[2])))
    ELSE UrlOk(scheme, host, path, IF scheme = <<"h","t","t","p">> THEN 80 ELSE 443)

\* Url::new, from url_remaining on
UrlOfRemaining(scheme, url_remaining) ==
    UrlOfHost(scheme, SplitN2(url_remaining, <<"/">>)[1],
              <<"/">> \o SplitN2(url_remaining, <<"/">>)[2])

\* Url::new
UrlNew(text) ==
    IF Len(SplitN2(text, <<":","/","/">>)) # 2 THEN UrlErr("URL missing :// separator")
    ELSE IF SplitN2(text, <<":","/","/">>)[1] \notin { <<"h","t","t","p">>, <<"h","t","t","p","s">> }
         THEN UrlErr("Unsupported URL scheme")
         ELSE UrlOfRemaining(SplitN2(text, <<":","/","/">>)[1],
                  IF Contains(SplitN2(text, <<":","/","/">>)[2], "/")
                  THEN SplitN2(text, <<":","/","/">>)[2]
                  ELSE Append(SplitN2(text, <<":","/","/">>)[2], "/"))

\* A pop that takes nothing off
PopKeeps(segments) == segments

\* Vec::pop: nothing happens to an empty Vec
Pop(segments) == SubSeq(segments, 1, Len(segments) - 1)

RECURSIVE Segments(_, _, _)
\* resolve: the loop over resolved_path.split('/'), from the i-th piece on
Segments(pieces, i, segments) ==
    IF i > Len(pieces) THEN segments
    ELSE IF pieces[i] \in { <<>>, <<".">> }
         THEN Segments(pieces, i + 1, segments)
         ELSE IF pieces[i] = <<".",".">>
              THEN Segments(pieces, i + 1, Pop(segments))
              ELSE Segments(pieces, i + 1, Append(segments, pieces[i]))

RECURSIVE Join(_, _)
\* [&str]::join(sep)
Join(segments, sep) ==
    IF segments = <<>> THEN <<>>
    ELSE IF Len(segments) = 1 THEN segments[1]
         ELSE segments[1] \o sep \o Join(Tail(segments), sep)

\* resolve: base_dir
BaseDir(path) == SubSeq(path, 1, RFind(path, "/", Len(path)) - 1)

\* resolve: resolved_path
ResolvedPath(self, reference) ==
    IF StartsWith(reference, "/") THEN reference
    ELSE BaseDir(self.path) \o <<"/">> \o reference

\* resolve: normalised_path
NormalisedPath(resolved_path) ==
    <<"/">> \o Join(Segments(SplitChar(resolved_path, "/"), 1, <<>>), <<"/">>)

\* Url::resolve
Resolve(self, reference) ==
    IF ContainsStr(reference, <<":","/","/">>) THEN UrlNew(reference)
    ELSE IF StartsWithStr(reference, <<"/","/">>)
         THEN UrlNew(self.scheme \o <<":">> \o reference)
         ELSE UrlNew(self.scheme \o <<":","/","/">> \o self.host
                       \o NormalisedPath(ResolvedPath(self, reference)))

-----------------------------------------------------------------------------
(* resolve() on the Urls that Url::new makes (url.rs, tab.rs).  A resolved *)
(* Url becomes the Url of the tab when the link is followed, and the next  *)
(* reference is resolved against it.                                       *)

\* How many links are followed one after another
MaxHops == 1

\* The texts the first Url is made of
UrlTexts ==
    { <<"h","t","t","p",":","/","/","h">>, <<"h","t","t","p",":","/","/","h","/">>, <<"h","t","t","p",":","/","/","h","/","a">>, <<"h","t","t","p",":","/","/","h","/","a","/","b">>, <<"h","t","t","p","s",":","/","/","h","/","a","/","b","/">>,
      <<"h","t","t","p","s",":","/","/","h",":","8","0","8","0","/","a","/","b","/","c">>, <<"h","t","t","p",":","/","/","h","/","a","/",".",".","/","b","/",".","/","c">> }

\* The references
Hrefs ==
    { <<>>, <<"c">>, <<"c","/">>, <<"c","/","d">>, <<".","/","c">>, <<".",".","/","c">>, <<".",".","/",".",".","/","c">>, <<".",".","/",".",".","/",".",".","/","c">>, <<".",".">>,
      <<".">>, <<"c","/",".","/","d">>, <<"c","/",".",".","/","d">>, <<"c","/","/","d">>, <<".",".",".">>, <<"/">>, <<"/","c">>, <<"/","c","/","d","/">>, <<"/","c","/",".","/","d">>,
      <<"/","c","/",".",".","/",".",".","/","d">>, <<"/",".",".">>, <<"/","/","g">>, <<"/","/","g","/","x","/",".",".","/","y">>, <<"/","/","g",":","8","1","/","x">>, <<"/","/","g",":","x","/","y">>,
      <<"h","t","t","p",":","/","/","g","/","x">>, <<"h","t","t","p","s",":","/","/","g",":","8","1","/","x","/",".",".","/","y">>, <<"f","t","p",":","/","/","g","/","x">>, <<"c","?","u","=","h","t","t","p",":","/","/","g">> }

\* The Urls that Url::new makes of the texts
FirstUrls == { UrlNew(text).url : text \in { t \in UrlTexts : UrlNew(t).ok } }

UrlInit ==
    /\ HtmlNew
    /\ CssIdle
    /\ TabIdle
    /\ ComposerIdle
    /\ AttrIdle
    /\ url \in { Some(u) : u \in FirstUrls }
    /\ href \in Hrefs
    /\ resolved = None
    /\ hops = 0

\* click: `self.url.resolve(href)`
ResolveStep ==
    /\ resolved = None
    /\ resolved' = Some(Resolve(Unwrap(url), href))
    /\ UNCHANGED <<url, href, hops>>
    /\ UNCHANGED <<htmlvars, cssvars, tabvars, composervars, attrvars>>

\* click, load: the resolved Url is the Url of the tab from now on, and
\* the next reference is one of the new page
Follow ==
    /\ resolved # None
    /\ Unwrap(resolved).ok
    /\ hops < MaxHops
    /\ url' = Some(Unwrap(resolved).url)
    /\ href' \in Hrefs
    /\ resolved' = None
    /\ hops' = hops + 1
    /\ UNCHANGED <<htmlvars, cssvars, tabvars, composervars, attrvars>>

UrlNext == ResolveStep \/ Follow

UrlSpec == UrlInit /\ [][UrlNext]_vars

-----------------------------------------------------------------------------
(* get_attributes on the text of one tag (html_parser.rs).  The text is a  *)
(* tag name and attribute tokens with a space before each.                 *)

\* How many attribute tokens a tag has
MaxAttrs == 2

\* The tag names
TagNames == { <<"a">>, <<"I","M","G">> }

\* The attribute tokens
AttrTokens ==
    { <<"h","r","e","f","=","/","p">>, <<"h","r","e","f","=","/","p","?","x","=","1">>, <<"H","R","E","F","=","\"","a","\"">>, <<"a","l","t","=","\"","\"">>, <<"x","=","'","a">>, <<"x","=","a","\"">>,
      <<"d","i","s","a","b","l","e","d">>, <<"C","l","a","s","s","=","'","b","'">>, <<"x","=">>, <<"a","=","=","b">> }

RECURSIVE TagTextOf(_, _, _)
\* The tag text of a name and the tokens tokens[i..]
TagTextOf(name, tokens, i) ==
    IF i > Len(tokens) THEN name
    ELSE TagTextOf(name \o <<" ">> \o tokens[i], tokens, i + 1)

\* The tag texts
TagTexts ==
    { TagTextOf(name, tokens, 1) :
        name \in TagNames,
        tokens \in UNION { [1..k -> AttrTokens] : k \in 0..MaxAttrs } }

AttrInit ==
    /\ HtmlNew
    /\ CssIdle
    /\ TabIdle
    /\ ComposerIdle
    /\ UrlIdle
    /\ tag_text \in TagTexts
    /\ tag_element = None

\* add_tag: `get_attributes(tag)`
GetAttributesStep ==
    /\ tag_element = None
    /\ tag_element' = Some(GetAttributes(tag_text))
    /\ UNCHANGED tag_text
    /\ UNCHANGED <<htmlvars, cssvars, tabvars, composervars, urlvars>>

AttrNext == GetAttributesStep

AttrSpec == AttrInit /\ [][AttrNext]_vars

-----------------------------------------------------------------------------
(* Properties of the markup tree builder                                   *)

\* The text a Scan step has just read
Fed == SubSeq(body', Len(body) + 1, Len(body'))

\* f is `<...>` with no other bracket inside
IsOneTag(f) ==
    /\ Len(f) >= 2
    /\ f[1] = "<"
    /\ f[Len(f)] = ">"
    /\ \A i \in 2..(Len(f) - 1) : f[i] \notin {"<", ">"}

\* A step of the scanner that is exactly one call add_tag(t): one tag read
\* with nothing buffered before it
OneTagStep == hpc = "scan" /\ buffer = <<>> /\ body' # body /\ IsOneTag(Fed)

\* The element get_attributes makes of the tag of a OneTagStep
StepElement == GetAttributes(SubSeq(Fed, 2, Len(Fed) - 1))

IsPrefix(a, b) == Len(a) <= Len(b) /\ SubSeq(b, 1, Len(a)) = a

NodeIds == 1..Len(nodes)

\* C1: parse never halts with a panic, whatever the markup
C1_ParseNeverPanics == hpc # "panic"

Ex_TitleP == F_titleX \o F_pY

\* C2, the rules: what one add_tag(t) inserts before t itself is processed
C2_Rules ==
    (OneTagStep /\ StepElement.ok /\ ~StartsWith(StepElement.tag, "!")) =>
        LET t    == StepElement.tag
            open == OpenTags(Scanner.p)
            new  == Len(nodes) + 1
        IN /\ hpc' = "scan"
           /\ (open = <<>> /\ t # S_html) =>
                /\ Len(nodes') >= new
                /\ nodes'[new].kind = "Element" /\ nodes'[new].tag = S_html
                /\ nodes'[new].parent = NoNode
                /\ unfinished'[1] = new
           /\ (open = <<>> /\ t \notin {S_html, S_head, S_body, S_slash_html}) =>
                /\ Len(nodes') >= new + 1
                /\ nodes'[new + 1].tag = (IF t \in HEAD_TAGS THEN S_head ELSE S_body)
                /\ nodes'[new + 1].parent = new
           /\ (open = <<S_html>> /\ t \notin {S_head, S_body, S_slash_html}) =>
                /\ Len(nodes') >= new
                /\ nodes'[new].kind = "Element"
                /\ nodes'[new].tag = (IF t \in HEAD_TAGS THEN S_head ELSE S_body)
                /\ nodes'[new].parent = unfinished[1]
           /\ (open = <<S_html>> /\ t \in {S_head, S_body}) =>
                /\ Len(nodes') = new
                /\ nodes'[new].tag = t
                /\ unfinished' = Append(unfinished, new)
           /\ (open = <<S_html>> /\ t = S_slash_html) =>
                /\ nodes' = nodes /\ unfinished' = unfinished
           /\ (open = <<S_html, S_head>> /\ t \notin HEAD_TAGS /\ t # S_slash_head) =>
                /\ \A i \in 1..Len(unfinished') : unfinished'[i] # unfinished[2]
                /\ IsPrefix(Append(nodes[unfinished[1]].children, unfinished[2]),
                            nodes'[unfinished[1]].children)
           /\ (open = <<S_html, S_head>> /\ t \in HEAD_TAGS) =>
                /\ IsPrefix(unfinished, unfinished')
                /\ Len(nodes') = new
                /\ nodes'[new].tag = t /\ nodes'[new].parent = unfinished[2]
           /\ (open = <<S_html, S_head>> /\ t = S_slash_head) =>
                /\ unfinished' = <<unfinished[1]>>
                /\ Len(nodes') = Len(nodes)

\* C2, the consequences: the root is an `html` element; under it come only
\* `head` and `body` elements, under its `head` only head-only elements; and
\* <title>X</title><p>Y</p> is html > head > title > X, html > body > p > Y
C2_Shape ==
    /\ Len(nodes) >= 1 =>
         nodes[1].kind = "Element" /\ nodes[1].tag = S_html /\ nodes[1].parent = NoNode
    /\ unfinished # <<>> => unfinished[1] = 1
    /\ hpc = "done" => root = 1
    /\ \A n \in NodeIds :
         (nodes[n].kind = "Element" /\ nodes[n].parent = 1) =>
             nodes[n].tag \in {S_head, S_body}
    /\ \A n \in NodeIds :
         (/\ nodes[n].kind = "Element"
          /\ nodes[n].parent # NoNode
          /\ nodes[nodes[n].parent].parent = 1
          /\ nodes[nodes[n].parent].tag = S_head) => nodes[n].tag \in HEAD_TAGS
    /\ (hpc = "done" /\ body = Ex_TitleP) =>
         /\ Len(nodes) = 7
         /\ [i \in 1..7 |-> nodes[i].tag] =
               <<S_html, S_head, S_title, <<>>, S_body, S_p, <<>>>>
         /\ [i \in 1..7 |-> nodes[i].children] =
               <<(<<2, 5>>), (<<3>>), (<<4>>), (<<>>), (<<6>>), (<<7>>), (<<>>)>>
         /\ nodes[4].kind = "Text" /\ nodes[4].text = <<"X">>
         /\ nodes[7].kind = "Text" /\ nodes[7].text = <<"Y">>

\* C2: implicit-tag insertion follows the three rules, so the root is always
\* an `html` element and <title>X</title><p>Y</p> gets its head and body
C2_ImplicitTags == [](C2_Shape) /\ [][C2_Rules]_vars

\* C2 witness: <title>X</title><p>Y</p> has been parsed
C2_Witness == hpc = "done" /\ body = Ex_TitleP /\ Len(nodes) = 7

Ex_ImgP == F_img \o F_pY

\* C3: a void element is a leaf of the current top as soon as it is seen, is
\* never on the open stack and never has children; in <img><p>Y</p> the img
\* and the p are siblings
C3_VoidTagsAreLeaves ==
    /\ \A n \in NodeIds :
         (nodes[n].kind = "Element" /\ nodes[n].tag \in VOID_TAGS) =>
             /\ nodes[n].children = <<>>
             /\ \A i \in 1..Len(unfinished) : unfinished[i] # n
             /\ nodes[n].parent # NoNode
             /\ \E i \in 1..Len(nodes[nodes[n].parent].children) :
                    nodes[nodes[n].parent].children[i] = n
    /\ (hpc = "done" /\ body = Ex_ImgP) =>
         /\ Len(nodes) = 5
         /\ nodes[3].tag = S_img /\ nodes[4].tag = S_p
         /\ nodes[3].parent = 2 /\ nodes[4].parent = 2
         /\ nodes[2].children = <<3, 4>>

\* C3 witness: <img><p>Y</p> has been parsed, the img is node 3
C3_Witness ==
    hpc = "done" /\ body = Ex_ImgP /\ Len(nodes) = 5 /\ nodes[3].tag = S_img

\* C4: nodes are created in the order they start in the source, and the
\* depth-first traversal of the returned tree visits them in that order
C4_DocumentOrder ==
    hpc = "done" => TreeToVec(nodes, root) = [i \in 1..Len(nodes) |-> i]

\* C4 witness: balanced markup with text, a void element and two elements
\* that are closed has been parsed
C4_Witness ==
    hpc = "done" /\ body = F_pY \o F_img \o F_pY /\ Len(nodes) = 7

\* A OneTagStep whose tag is a closing tag
CloseTagStep == OneTagStep /\ StepElement.ok /\ StartsWith(StepElement.tag, "/")

Front(q) == SubSeq(q, 1, Len(q) - 1)

\* The heap with one more, childless `body` element listed under node r
WithEmptyBody(ns, r) ==
    PushChild(Append(ns, ElementNode([tag |-> S_body, attributes |-> EmptyMap], r)),
              r, Len(ns) + 1)

Occurrences(n) ==
    { o \in NodeIds \X NodeIds :
        o[2] <= Len(nodes[o[1]].children) /\ nodes[o[1]].children[o[2]] = n }

\* C6: in the returned tree the root has no parent and is nobody's child, and
\* every other node is listed exactly once, in the children of the node
\* recorded as its parent when it was created
C6_SingleParent ==
    hpc = "done" =>
        /\ nodes[root].parent = NoNode
        /\ Occurrences(root) = {}
        /\ \A n \in NodeIds \ {root} :
             /\ Cardinality(Occurrences(n)) = 1
             /\ \A o \in Occurrences(n) : o[1] = nodes[n].parent

\* C6 witness: a tree in which `head` was closed implicitly and finish()
\* attached the elements still open
C6_Witness ==
    hpc = "done" /\ body = F_head \o F_p \o F_x /\ Len(nodes) = 5

-----------------------------------------------------------------------------
(* Properties of the style sheet parser                                    *)

\* m holds every entry of sub
Includes(m, sub) == \A k \in DOMAIN sub : k \in DOMAIN m /\ m[k] = sub[k]

RECURSIVE ChainOf(_)
\* The selector the names stand for: a Tag for one name, otherwise the
\* chain of the names before the last as ancestor of the last
ChainOf(names) ==
    IF Len(names) = 1 THEN TagSelector(ToLowercase(names[1]))
    ELSE DescendantSelector(ChainOf(SubSeq(names, 1, Len(names) - 1)),
                            TagSelector(ToLowercase(names[Len(names)])))

\* The rule with the given selector names and declarations
RuleOf(names, decls) == [selector |-> ChainOf(names), body |-> decls]

C7_Safe ==
    mode = "sheet" =>
        /\ result \notin {"Err", "panic"}
        /\ index <= Len(style)
        /\ iters <= Len(style)
        /\ cpc \in {"parse", "body", "done"}
        /\ cpc = "done" <=> result = "Ok"

C7_Progress == mode = "sheet" => index' > index \/ cpc' = "done"

\* C7: parse() on any style text, well formed or not, never returns Err and
\* never panics, and what it returns is Ok(rules); it comes to an end,
\* because every step of the loops of parse() and of body() moves the
\* cursor forward or makes parse() return, the cursor never passes the end
\* of the text, and the loop bodies run at most once per character.
C7_ParseAlwaysOk == [](C7_Safe) /\ [][C7_Progress]_vars

\* parse() has returned Ok with no rule after recovering at least twice
C7_Witness ==
    /\ mode = "sheet"
    /\ cpc = "done"
    /\ result = "Ok"
    /\ rules = <<>>
    /\ iters >= 2
    /\ \E i \in 1..Len(style) : style[i] = "}"

\* C8: when a declaration is malformed (its pair does not parse, or its `;`
\* is missing), body() resumes after the next `;` and still returns the
\* well-formed declarations before and after the malformed one, both for
\* an inline style attribute and inside a rule of a style sheet.
C8_AsStated ==
    \A text \in BodyTexts :
        /\ (mode = "inline" /\ style = text /\ cpc = "done")
              => result = "Ok" /\ Includes(pairs, ColorAndSize)
        /\ (mode = "sheet" /\ cpc = "done"
              /\ style = RuleText(<<N_a>>, <<>>, text))
              => /\ result = "Ok"
                 /\ Len(rules) = 1
                 /\ Includes(rules[1].body, ColorAndSize)

\* C9: when the text of a rule is malformed, parse() skips to the next `}`
\* and goes on after it, and returns every well-formed rule before and
\* after the skipped text, in source order, without an error.
C9_AsStated ==
    (mode = "sheet" /\ cpc = "done") =>
        /\ result = "Ok"
        /\ style = T_skip => rules = << RuleOf(<<N_a>>, ColorOnly) >>
        /\ \A bad \in BadRules, names \in NameLists, gap \in Gaps :
              /\ style = R_a \o bad \o RuleText(names, gap, D_color)
                   => rules = << RuleOf(<<N_a>>, ColorOnly),
                                 RuleOf(names, ColorOnly) >>
              /\ style = RuleText(names, gap, D_color) \o bad \o R_size
                   => rules = << RuleOf(names, ColorOnly),
                                 RuleOf(<<N_c>>, SizeOnly) >>

\* C10: selector() turns N names separated by whitespace and followed by
\* `{` into a Tag for N = 1 and otherwise into the left-nested chain of
\* Descendants of the lowercased names, whether or not whitespace stands
\* between the last name and the brace.
C10_AsStated ==
    \A names \in NameLists, gap \in Gaps :
        (mode = "sheet" /\ cpc = "done"
           /\ style = RuleText(names, gap, <<>>))
           => rules = << RuleOf(names, EmptyMap) >>

-----------------------------------------------------------------------------
(* Properties of the selectors and the cascade                             *)

\* The tag names the selectors of the properties are made of
SelectorNames == { <<"p">>, <<"d","i","v">>, <<"b","o","d","y">> }

\* The selectors over S, and the Descendants of two of them
Nested(S) == S \cup { DescendantSelector(a, d) : a \in S, d \in S }

\* Every selector of at most two names
ShortSelectors == Nested({ TagSelector(t) : t \in SelectorNames })

\* Every selector of at most four names, of any shape
Selectors == Nested(ShortSelectors)

\* C11: a Tag selector matches a node if and only if the node is an Element
\* whose tag equals the name; it never matches a Text node, and therefore
\* no selector of any shape matches a Text node.
C11_TagMatches ==
    \A n \in 1..Len(dom) :
        /\ \A t \in SelectorNames \cup { <<"x">>, <<"y">>, <<"l","i","n","k">>, <<>> } :
              Matches(dom, TagSelector(t), n)
                <=> (dom[n].kind = "Element" /\ dom[n].tag = t)
        /\ dom[n].kind = "Text"
             => \A sel \in Selectors : ~Matches(dom, sel, n)

\* A styled page with a Text node, and an Element that a Tag selector of the
\* sheet has matched
C11_Witness ==
    /\ tpc = "styled"
    /\ \E n \in 1..Len(dom) : dom[n].kind = "Text"
    /\ \E i \in 1..Len(sheet), n \in 1..Len(dom) :
          /\ sheet[i].selector.type = "Tag"
          /\ Matches(dom, sheet[i].selector, n)

\* The nodes below node a, read off the children lists
Below(ns, a) ==
    { TreeToVec(ns, a)[i] : i \in 2..Len(TreeToVec(ns, a)) }

\* The strict ancestors of node n
StrictAncestors(ns, n) == { a \in 1..Len(ns) : n \in Below(ns, a) }

\* A Descendant of two short selectors matches node n, whose strict
\* ancestors are the set `above`, exactly when its descendant side matches n
\* and its ancestor side matches a node of `above`
DescendantMatchesAt(n, above) ==
    \A a \in ShortSelectors, d \in ShortSelectors :
        Matches(dom, DescendantSelector(a, d), n)
          <=> /\ Matches(dom, d, n)
              /\ \E m \in above : Matches(dom, a, m)

\* The parent chain of n, whose strict ancestors are the set `above`, does
\* not come back to n and ends at the root
ChainEndsAtRoot(n, above) ==
    /\ n \notin above
    /\ n = dom_root \/ dom_root \in above
    /\ dom[dom_root].parent = NoNode

\* C12: a Descendant selector matches a node if and only if its descendant
\* side matches the node and its ancestor side matches at least one strict
\* ancestor of the node, at any distance and never the node itself; the
\* parent chain of every node ends at the root, which has no parent.
C12_DescendantMatches ==
    \A n \in 1..Len(dom) :
        /\ DescendantMatchesAt(n, StrictAncestors(dom, n))
        /\ ChainEndsAtRoot(n, StrictAncestors(dom, n))

\* A styled page where a Descendant selector of the sheet has matched, and
\* where `body p` matches a p that is not a child of body
C12_Witness ==
    /\ tpc = "styled"
    /\ \E i \in 1..Len(sheet), n \in 1..Len(dom) :
          /\ sheet[i].selector.type = "Descendant"
          /\ Matches(dom, sheet[i].selector, n)
    /\ \E n \in 1..Len(dom) :
          /\ Matches(dom, DescendantSelector(TagSelector(<<"b","o","d","y">>),
                                             TagSelector(<<"p">>)), n)
          /\ dom[dom[n].parent].tag = <<"d","i","v">>

RECURSIVE Names(_)
\* The tag names of a selector, from left to right
Names(sel) ==
    IF sel.type = "Tag" THEN <<sel.tag>>
    ELSE Names(sel.ancestor) \o Names(sel.descendant)

\* The first rule that parse() has returned as r, if any, has as its
\* priority the number of the names it was written with
ParsedPriority(names, r) ==
    r.rules # <<>> => Priority(r.rules[1].selector) = Len(names)

\* C13: the priority of a selector is 1 for a Tag and the sum of the
\* priorities of the two sides for a Descendant, so the priority of a parsed
\* selector is the number of tag names in it.
C13_Priority ==
    /\ \A sel \in Selectors :
          /\ sel.type = "Tag" => Priority(sel) = 1
          /\ sel.type = "Descendant"
               => Priority(sel) = Priority(sel.ancestor)
                                    + Priority(sel.descendant)
          /\ Priority(sel) = Len(Names(sel))
    /\ \A i \in 1..Len(sheet) :
          Priority(sheet[i].selector) = Len(Names(sheet[i].selector))
    /\ \A names \in NameLists, gap \in Gaps :
          ParsedPriority(names, Parse(RuleText(names, gap, <<>>)))

\* A sheet that holds a parsed rule of one name and a parsed rule of two
C13_Witness ==
    /\ tpc = "styled"
    /\ \E i \in 1..Len(sheet), j \in 1..Len(sheet) :
          /\ Priority(sheet[i].selector) = 1
          /\ Names(sheet[j].selector) = << <<"d","i","v">>, <<"p">> >>
          /\ Priority(sheet[j].selector) = 2

V_blue == <<"b","l","u","e">>

\* The inline style texts of the pages that declare the color blue: alone,
\* after a declaration that is malformed, and after a font size
BlueInlines ==
    { <<"c","o","l","o","r",":","b","l","u","e">>, <<"b","a","d",";","c","o","l","o","r",":","b","l","u","e">>, <<"f","o","n","t","-","s","i","z","e",":","1","5","0","%",";","c","o","l","o","r",":","b","l","u","e">> }

\* Node n is an element whose `style` attribute declares the color blue
DeclaresBlue(n) ==
    /\ dom[n].kind = "Element"
    /\ K_attr_style \in DOMAIN dom[n].attributes
    /\ dom[n].attributes[K_attr_style] \in BlueInlines

\* C14: inline style always wins: for every element whose `style` attribute
\* declares a property, the resolved value of that property after the
\* cascade is the inline one, whatever rules of the sheet match the element
\* and declare the same property.
C14_AsStated ==
    tpc = "styled" =>
        \A n \in 1..Len(dom) : DeclaresBlue(n) => styles[n][K_color] = V_blue

\* The example of C14: the rule `p{color:red}` and `<p style="color:blue">`
C14_Example ==
    /\ tpc = "styled"
    /\ \E i \in 1..Len(sheet) : sheet[i] = RuleOf(<< <<"p">> >>, ColorOnly)
    /\ \E n \in 1..Len(dom) :
          /\ DeclaresBlue(n)
          /\ dom[n].attributes[K_attr_style] = <<"c","o","l","o","r",":","b","l","u","e">>
          /\ styles[n][K_color] = V_blue

V_green == <<"g","r","e","e","n">>

\* The rules of the linked sheets that declare a color: their text, the
\* names of their selector and the color they declare
ColorRules ==
    { [text |-> L_p_red, names |-> << <<"p">> >>, color |-> V_red],
      [text |-> L_p_blue, names |-> << <<"p">> >>, color |-> V_blue],
      [text |-> L_div_p_red, names |-> << <<"d","i","v">>, <<"p">> >>, color |-> V_red],
      [text |-> L_div_p_green, names |-> << <<"d","i","v">>, <<"p">> >>,
       color |-> V_green] }

\* Node n is an element without a `style` attribute that the selectors of
\* both rules match
BothMatch(lo, hi, n) ==
    /\ dom[n].kind = "Element"
    /\ K_attr_style \notin DOMAIN dom[n].attributes
    /\ Matches(dom, ChainOf(lo.names), n)
    /\ Matches(dom, ChainOf(hi.names), n)

\* C15: when two rules of a sheet match the same element and declare the
\* same property, the rule of the higher priority gives the resolved value,
\* in whichever order the sheet declares them; so `div p {color:red}`
\* overrides `p {color:blue}` for the p of `<div><p>`.
C15_AsStated ==
    (tpc = "styled" /\ Len(linked) = 1 /\ linked[1].ok) =>
        \A lo \in ColorRules, hi \in ColorRules :
            /\ Len(lo.names) < Len(hi.names)
            /\ linked[1].text \in { lo.text \o hi.text, hi.text \o lo.text }
            => \A n \in 1..Len(dom) :
                  BothMatch(lo, hi, n) => styles[n][K_color] = hi.color

\* The thousandths of a pixel that a size `<number>px` stands for
Pixels(str) == ParseF32(RemovePx(str)).value

\* str is a size in pixels
IsPixels(str) ==
    /\ Len(str) > 2
    /\ SubSeq(str, Len(str) - 1, Len(str)) = <<"p","x">>
    /\ ParseF32(SubSeq(str, 1, Len(str) - 2)).ok

\* str is a whole percentage `<digits>%`
IsPercentage(str) ==
    /\ Len(str) > 1
    /\ str[Len(str)] = "%"
    /\ AllDigits(SubSeq(str, 1, Len(str) - 1))

\* The number of a whole percentage
Percentage(str) == DigitsValue(SubSeq(str, 1, Len(str) - 1))

\* The size a percentage of node n is taken of
SizeAbove(n) ==
    IF dom[n].parent = NoNode THEN V_16px
    ELSE styles[dom[n].parent][K_size]

\* The call of style() on node n, whose cascaded font size is `size` and
\* whose parent's resolved font size, or the root default, is `above`:
\* a percentage of a size in pixels is resolved to that share of the
\* pixels, and a size that is no percentage is kept
SizeResolved(n, size, above) ==
    /\ IsPercentage(size) /\ IsPixels(above)
         => /\ tpc' # "panic"
            /\ IsPixels(styles'[n][K_size])
            /\ Pixels(styles'[n][K_size]) * 100
                 = Percentage(size) * Pixels(above)
    /\ size[Len(size)] # "%"
         => /\ tpc' # "panic"
            /\ styles'[n][K_size] = size

C16_Step ==
    tpc = "style" =>
        SizeResolved(Head(pending),
                     Cascaded(dom, styles, sheet, Head(pending))[K_size],
                     SizeAbove(Head(pending)))

\* Node n carries the inline style `font-size:50%` and its parent the
\* inline style `font-size:200%`
HalfOfDouble(n) ==
    /\ dom[n].kind = "Element"
    /\ K_attr_style \in DOMAIN dom[n].attributes
    /\ dom[n].attributes[K_attr_style] = <<"f","o","n","t","-","s","i","z","e",":","5","0","%">>
    /\ dom[n].parent # NoNode
    /\ K_attr_style \in DOMAIN dom[dom[n].parent].attributes
    /\ dom[dom[n].parent].attributes[K_attr_style] = <<"f","o","n","t","-","s","i","z","e",":","2","0","0","%">>

\* No resolved font size is a percentage, and in the chain 16px, 200%, 50%
\* the sizes are 16px, 32px and 16px
C16_Resolved ==
    /\ \A n \in 1..Len(styles) :
          styles[n] # EmptyMap => ~EndsWithPercent(styles[n][K_size])
    /\ tpc = "styled" =>
          \A n \in 1..Len(dom) :
              HalfOfDouble(n)
                => /\ styles[dom[dom[n].parent].parent][K_size] = V_16px
                   /\ styles[dom[n].parent][K_size] = <<"3","2","p","x">>
                   /\ styles[n][K_size] = V_16px

\* C16: a percentage font size is resolved against the resolved size in
\* pixels of the parent, or against the 16px default at the root: a node
\* whose cascaded font size is p% gets p/100 of it; after the cascade no
\* resolved font size is a percentage, and the chain 16px, 200%, 50% gives
\* the leaf 16px.
C16_PercentOfParent == [](C16_Resolved) /\ [][C16_Step]_vars

\* The chain 16px, 200%, 50% has been resolved
C16_Witness ==
    /\ tpc = "styled"
    /\ \E n \in 1..Len(dom) :
          /\ HalfOfDouble(n)
          /\ styles[dom[n].parent][K_size] = <<"3","2","p","x">>
          /\ styles[n][K_size] = V_16px

\* The properties that the inline style text declares
InlineKeys(text) ==
    IF text \in { <<"c","o","l","o","r",":","b","l","u","e">>, <<"b","a","d",";","c","o","l","o","r",":","b","l","u","e">> } THEN { K_color }
    ELSE IF text = <<"f","o","n","t","-","s","i","z","e",":","1","5","0","%",";","c","o","l","o","r",":","b","l","u","e">> THEN { K_color, K_size }
    ELSE { K_size }

\* Neither a rule of the sheet that matches node n nor the inline style of
\* n declares property k
Undeclared(n, k) ==
    /\ \A i \in 1..Len(sheet) :
          Matches(dom, sheet[i].selector, n) => k \notin DOMAIN sheet[i].body
    /\ \/ dom[n].kind = "Text"
       \/ K_attr_style \notin DOMAIN dom[n].attributes
       \/ k \notin InlineKeys(dom[n].attributes[K_attr_style])

\* The value node n inherits for property k
Inherited(n, k) ==
    IF dom[n].parent = NoNode THEN INHERITED_PROPERTIES[k]
    ELSE styles[dom[n].parent][k]

\* After the cascade every node has the four inherited properties, with the
\* value of its parent, or the default at the root, where nothing declares
\* one for it
C17_Inherited ==
    tpc = "styled" =>
        \A n \in 1..Len(dom) :
            /\ { K_color, K_size, K_weight, K_style } \subseteq DOMAIN styles[n]
            /\ \A k \in { K_color, K_size, K_weight, K_style } :
                  Undeclared(n, k) => styles[n][k] = Inherited(n, k)
            /\ n = dom_root
                 => styles[n] = [k \in { K_color, K_size, K_weight, K_style }
                                   |-> IF k = K_color THEN V_black
                                       ELSE IF k = K_size THEN V_16px
                                       ELSE V_normal]

\* A call of style() is made on a node whose parent has its style and whose
\* children have none, and the style a node has been given stays as it is
C17_Step ==
    /\ tpc = "style"
         => /\ styles[Head(pending)] = EmptyMap
            /\ \/ dom[Head(pending)].parent = NoNode
               \/ styles[dom[Head(pending)].parent] # EmptyMap
            /\ \A i \in 1..Len(dom[Head(pending)].children) :
                  styles[dom[Head(pending)].children[i]] = EmptyMap
    /\ \A n \in 1..Len(styles) :
          styles[n] # EmptyMap => styles'[n] = styles[n]

-----------------------------------------------------------------------------
(* Properties of the layout                                                *)

\* The last element of a sequence that is not empty
Last(q) == q[Len(q)]

\* The width of a line of texts from the left edge x of the block to the
\* right edge of its last text: its words and the spaces between them
LineWidth(texts, x) ==
    (Unwrap(Last(texts).position).x - x) + Unwrap(Last(texts).size).x

\* Every text is a whole word, as wide as its galley, and starts where the
\* text before it and the space behind that one end, or further right
WordsWhole(texts) ==
    \A i \in 1..Len(texts) :
        /\ Unwrap(texts[i].size).x = texts[i].galley.width
        /\ i > 1 => Unwrap(texts[i].position).x
                      >= Unwrap(texts[i - 1].position).x
                           + Unwrap(texts[i - 1].size).x

\* The texts fit into width w, or are one word on its own
FitsOrAlone(texts, x, w) == LineWidth(texts, x) <= w \/ Len(texts) = 1

\* The lines the composer has emitted and the line it is filling hold whole
\* words and are not wider than the block, but for a word on its own that
\* is wider than the block; the cursor is behind the last word and its
\* space
C18_Lines ==
    lpc \in {"recurse", "done"} =>
        /\ \A i \in 1..Len(composer.children) :
              /\ composer.children[i].children # <<>>
              /\ WordsWhole(composer.children[i].children)
              /\ FitsOrAlone(composer.children[i].children,
                             Unwrap(composer.outer_position).x,
                             Unwrap(composer.outer_size).x)
        /\ WordsWhole(composer.current_line_nodes)
        /\ IF composer.current_line_nodes = <<>>
           THEN composer.cursor_x = 0
           ELSE /\ FitsOrAlone(composer.current_line_nodes, 0,
                               Unwrap(composer.outer_size).x)
                /\ composer.cursor_x
                     = LineWidth(composer.current_line_nodes, 0)
                         + composer.space_width

RECURSIVE TextsOnLines(_, _)
\* How many texts the lines[i..] hold
TextsOnLines(lines, i) ==
    IF i > Len(lines) THEN 0
    ELSE Len(lines[i].children) + TextsOnLines(lines, i + 1)

\* How many texts the composer has placed
TextCount(c) == Len(c.current_line_nodes) + TextsOnLines(c.children, 1)

\* A call of word(): when the word does not fit behind the cursor, the
\* line is ended, if it holds a word, and the word starts the next line;
\* when the word fits it is put on the line, behind the cursor
C18_Step ==
    (lpc = "recurse" /\ lpc' = "recurse"
       /\ TextCount(composer') = TextCount(composer) + 1)
      => IF composer.cursor_x
              + Last(composer'.current_line_nodes).galley.width
                 > Unwrap(composer.outer_size).x
         THEN /\ Len(composer'.current_line_nodes) = 1
              /\ Unwrap(composer'.current_line_nodes[1].position).x = 0
              /\ Len(composer'.children)
                   = Len(composer.children)
                       + IF composer.current_line_nodes = <<>> THEN 0 ELSE 1
         ELSE /\ composer'.children = composer.children
              /\ Len(composer'.current_line_nodes)
                   = Len(composer.current_line_nodes) + 1
              /\ Unwrap(Last(composer'.current_line_nodes).position).x
                   = composer.cursor_x

\* C18, with the word that is wider than the block allowed for: every
\* emitted line is at most as wide as the block unless it is one word that
\* is itself wider, words are never split, and a line that a word has ended
\* is maximal: with that word it would have been wider than the block.
C18_GreedyLines == [](C18_Lines) /\ [][C18_Step]_vars

\* C18: every emitted line, its words and the spaces between them, is at
\* most as wide as the content width W of the block.
C18_AsStated ==
    lpc \in {"recurse", "done"} =>
        \A i \in 1..Len(composer.children) :
            LineWidth(composer.children[i].children,
                      Unwrap(composer.outer_position).x)
              <= Unwrap(composer.outer_size).x

\* A block of two lines: two words that fill the width exactly, and a word
\* wider than the block on its own
C18_Witness ==
    /\ lpc = "done"
    /\ Len(composer.children) = 2
    /\ Len(composer.children[1].children) = 2
    /\ LineWidth(composer.children[1].children, HSTEP) = WIDTH - 2 * HSTEP
    /\ LineWidth(composer.children[2].children, HSTEP) > WIDTH - 2 * HSTEP

-----------------------------------------------------------------------------
(* Properties of the layout of a page (C19-C20)                            *)

\* The layout of the styled page by one pass over a new document
OnePass == LayoutDocument(NewDocument(dom_root), dom, styles, fonts)

\* C19 as stated: laying out the same styled document again, with the same
\* viewport and fonts, gives the same positions and sizes of all layout
\* nodes and the same display list: the document, however often it has been
\* laid out, is the layout of one pass, and the display list is the painting
\* of it (or empty, between load() and the next draw()).
C19_AsStated ==
    (tpc \in {"styled", "failed"} /\ document # None
       /\ Unwrap(document).children # <<>>)
    => /\ document = Some(OnePass)
       /\ draw_commands \in { <<>>, PaintTree(OnePass, dom, styles) }

RECURSIVE BlocksOf(_)
\* The Block nodes of the layout tree under node, itself included
BlocksOf(node) ==
    (IF node.content = "Block" THEN {node} ELSE {})
      \cup UNION { BlocksOf(node.children[i]) : i \in 1..Len(node.children) }

\* Has node n a child that is an element with a block-level tag
BlockLevelChild(n) ==
    \E i \in 1..Len(dom[n].children) :
        /\ dom[dom[n].children[i]].kind = "Element"
        /\ dom[dom[n].children[i]].tag \in BLOCK_ELEMENTS

\* Block b was laid out in Block mode: one Block for each child of its node
InBlockMode(b) ==
    /\ LayoutMode(dom, b.node) = "Block"
    /\ Len(b.children) = Len(dom[b.node].children)
    /\ \A i \in 1..Len(b.children) :
           /\ b.children[i].content = "Block"
           /\ b.children[i].node = dom[b.node].children[i]

\* Block b was laid out in Inline mode: its children are lines of text
InInlineMode(b) ==
    /\ LayoutMode(dom, b.node) = "Inline"
    /\ \A i \in 1..Len(b.children) : b.children[i].content = "Line"

\* Block b is empty
IsEmptyBlock(b) ==
    /\ LayoutMode(dom, b.node) = "Block"
    /\ b.children = <<>>
    /\ Unwrap(b.size).y = 0

\* The mode the block of an element is to be laid out in
ModeAsDecided(b) ==
    IF BlockLevelChild(b.node) THEN InBlockMode(b)
    ELSE IF dom[b.node].children # <<>> THEN InInlineMode(b)
    ELSE IsEmptyBlock(b)

\* C20: in a document that has been laid out, the Block of an element with
\* a block-level child element was laid out in Block mode, the Block of an
\* element with children none of which is block-level in Inline mode, and
\* the Block of a childless element has no children and height 0.
C20_ModeDecision ==
    (tpc = "styled" /\ document # None)
    => \A b \in BlocksOf(Unwrap(document)) :
           dom[b.node].kind = "Element" => ModeAsDecided(b)

\* C20 witness: a laid-out document with a Block in Block mode that has
\* Block children, a Block in Inline mode that has lines, and the empty
\* Block of a childless element
C20_Witness ==
    /\ tpc = "styled"
    /\ document # None
    /\ \E b \in BlocksOf(Unwrap(document)) :
           /\ dom[b.node].kind = "Element"
           /\ BlockLevelChild(b.node)
           /\ Len(b.children) > 1
           /\ InBlockMode(b)
    /\ \E b \in BlocksOf(Unwrap(document)) :
           /\ dom[b.node].kind = "Element"
           /\ ~BlockLevelChild(b.node)
           /\ dom[b.node].children # <<>>
           /\ b.children # <<>>
           /\ InInlineMode(b)
    /\ \E b \in BlocksOf(Unwrap(document)) :
           /\ dom[b.node].kind = "Element"
           /\ dom[b.node].children = <<>>
           /\ IsEmptyBlock(b)

-----------------------------------------------------------------------------
(* Properties of the block layout (C21-C22, C24, C26)                      *)

\* The document is there and has been laid out
LaidOut ==
    /\ tpc \in {"styled", "failed"}
    /\ document # None
    /\ Unwrap(document).children # <<>>

\* The bottom of a layout node
Bottom(node) == Unwrap(node.position).y + Unwrap(node.size).y

\* The Block at place i of parent is at the x of its parent, has the width
\* of its parent, and is below the sibling its `previous` link names, or at
\* the y of its parent when it has none
PlacedIn(parent, i) ==
    /\ Unwrap(parent.children[i].position).x = Unwrap(parent.position).x
    /\ Unwrap(parent.children[i].size).x = Unwrap(parent.size).x
    /\ Unwrap(parent.children[i].position).y =
         IF parent.children[i].previous = 0 THEN Unwrap(parent.position).y
         ELSE Bottom(parent.children[parent.children[i].previous])

\* The Block children of block b are linked in source order: each to the
\* one before it
LinkedInOrder(b) ==
    \A i \in 1..Len(b.children) :
        b.children[i].content = "Block" => b.children[i].previous = i - 1

\* The Block children of node are placed in it
ChildrenPlaced(node) ==
    \A i \in 1..Len(node.children) :
        node.children[i].content = "Block" => PlacedIn(node, i)

RECURSIVE SumOfHeights(_)
\* The heights of the layout nodes, added up
SumOfHeights(layout_nodes) ==
    IF layout_nodes = <<>> THEN 0
    ELSE Unwrap(Head(layout_nodes).size).y + SumOfHeights(Tail(layout_nodes))

RECURSIVE ParagraphsIn(_)
RECURSIVE ParagraphsInAll(_, _)
\* How many `p` elements are in the subtree of node n of the page
ParagraphsIn(n) ==
    (IF dom[n].kind = "Element" /\ dom[n].tag = <<"p">> THEN 1 ELSE 0)
      + ParagraphsInAll(dom[n].children, 1)

\* How many `p` elements are in the subtrees of kids[i..]
ParagraphsInAll(kids, i) ==
    IF i > Len(kids) THEN 0
    ELSE ParagraphsIn(kids[i]) + ParagraphsInAll(kids, i + 1)

\* The height of Block b is that of its children, in Block mode, and its
\* final cursor_y in Inline mode, which is the height of its lines and one
\* VSTEP for each paragraph closed
HeightFromBelow(b) ==
    IF LayoutMode(dom, b.node) = "Block"
    THEN Unwrap(b.size).y = SumOfHeights(b.children)
    ELSE /\ Unwrap(b.size).y = b.cursor_y
         /\ b.cursor_y = SumOfHeights(b.children) + VSTEP * ParagraphsIn(b.node)

\* C22: in a laid-out document the height of a Block in Block mode is the
\* sum of the heights of its children, that of a Block in Inline mode is
\* its final vertical cursor, and the Document has the origin
\* (HSTEP, VSTEP), the width WIDTH - 2*HSTEP and the height of its Block.
C22_Heights ==
    LaidOut
    => /\ \A b \in BlocksOf(Unwrap(document)) : HeightFromBelow(b)
       /\ Unwrap(document).position = Some(Vec2(HSTEP, VSTEP))
       /\ Unwrap(Unwrap(document).size).x = WIDTH - 2 * HSTEP
       /\ \A i \in 1..Len(Unwrap(document).children) :
              Unwrap(Unwrap(document).size).y
                = Unwrap(Unwrap(document).children[i].size).y

\* C22 witness: a Document with a height, over a Block in Block mode with
\* two children that have one, one of them in Inline mode with a paragraph
C22_Witness ==
    /\ LaidOut
    /\ Unwrap(Unwrap(document).size).y > 2 * VSTEP
    /\ \E b \in BlocksOf(Unwrap(document)) :
           /\ LayoutMode(dom, b.node) = "Block"
           /\ Len(b.children) >= 2
           /\ Unwrap(b.children[1].size).y > 0
           /\ Unwrap(b.children[2].size).y > 0
           /\ Unwrap(b.size).y
                = Unwrap(b.children[1].size).y + SumOfHeights(Tail(b.children))
           /\ LayoutMode(dom, b.children[2].node) = "Inline"
           /\ ParagraphsIn(b.children[2].node) = 1
           /\ b.children[2].cursor_y = Unwrap(b.children[2].size).y

\* Block b has one Block child for each child of its node, in source order
OnePerChild(b) ==
    /\ Len(b.children) = Len(dom[b.node].children)
    /\ \A i \in 1..Len(b.children) :
           /\ b.children[i].content = "Block"
           /\ b.children[i].node = dom[b.node].children[i]

\* C26: in a laid-out document a Block in Block mode has exactly one Block
\* child for each child of its node, in source order, whether that child
\* is a block-level element, an inline element or a text node.
C26_OneBlockPerChild ==
    LaidOut
    => \A b \in BlocksOf(Unwrap(document)) :
           (dom[b.node].kind = "Element" /\ BlockLevelChild(b.node))
           => OnePerChild(b)

\* C26 witness: the div of `<div><span>a</span><p>b</p></div>` with two
\* Block children, that of the span and then that of the p
C26_Witness ==
    /\ LaidOut
    /\ \E b \in BlocksOf(Unwrap(document)) :
           /\ dom[b.node].tag = <<"d","i","v">>
           /\ Len(b.children) = 2
           /\ b.children[1].content = "Block"
           /\ dom[b.children[1].node].tag = <<"s","p","a","n">>
           /\ b.children[2].content = "Block"
           /\ dom[b.children[2].node].tag = <<"p">>

\* No element of the sequence occurs in it twice
Distinct(seq) ==
    \A i, j \in 1..Len(seq) : seq[i] = seq[j] => i = j

\* C24 as stated: after any sequence of load and draw events the Document
\* has exactly one Block child, once it has been laid out, and none before,
\* and the display list holds no paint command twice.
C24_AsStated ==
    (tpc \in {"styled", "failed"} /\ document # None)
    => /\ Len(Unwrap(document).children) <= 1
       /\ Distinct(draw_commands)

-----------------------------------------------------------------------------
(* Properties of the tab without a document and of panics (C23, C27, C28)  *)

\* C27: draw() and scroll_down() on a tab without a document (none has
\* been loaded with success) halt the process with the panic
\* "Browser document not initialized." instead of returning to the caller,
\* and nothing else halts it with that message.
C27_Fatal ==
    /\ [](tpc = "not_initialized" => document = None)
    /\ [][(document = None /\ (Draw \/ ScrollDown))
            => tpc' = "not_initialized"]_vars

\* C27 witness: a tab without a document halted by that panic
C27_Witness ==
    /\ tpc = "not_initialized"
    /\ document = None
    /\ dom = <<>>

\* C23 as stated: a load() that ends with a network error leaves the tree
\* of nodes and the root of the layout as they were, and no later draw() or
\* scroll_down() halts the process, whether or not a document had been
\* loaded before.
C23_AsStated ==
    /\ [][NavigateFailed => UNCHANGED <<dom, dom_root, document>>]_vars
    /\ [][tpc = "failed" => tpc' # "not_initialized"]_vars

\* C28 as stated: whatever values the style sheet parser gives for color,
\* font-size, font-weight and font-style, the cascade of load() and the
\* layout of draw() run to their end: neither panics.
C28_AsStated == tpc # "panic"

-----------------------------------------------------------------------------
(* Properties of flush_line and of the tag events (C29, C30)               *)

\* The largest of a non-empty set of numbers
Largest(S) == CHOOSE m \in S : \A k \in S : k <= m

\* 1.25 x (max_ascent + max_descent) over the words of a buffer
LineHeightOf(texts) ==
    ((Largest({ texts[i].galley.ascent : i \in 1..Len(texts) })
      + Largest({ texts[i].galley.font_height - texts[i].galley.ascent :
                  i \in 1..Len(texts) })) * 5) \div 4

\* The composer d is the composer c after one flush of its line
Flushed(c, d) ==
    IF c.current_line_nodes = <<>> THEN d = c
    ELSE /\ Len(d.children) = Len(c.children) + 1
         /\ SubSeq(d.children, 1, Len(c.children)) = c.children
         /\ LET line == d.children[Len(d.children)]
            IN  /\ line.content = "Line"
                /\ Len(line.children) = Len(c.current_line_nodes)
                /\ \A i \in 1..Len(line.children) :
                       /\ line.children[i].content = "Text"
                       /\ line.children[i].galley =
                              c.current_line_nodes[i].galley
                       /\ line.children[i].node = c.current_line_nodes[i].node
         /\ d.cursor_y = c.cursor_y + LineHeightOf(c.current_line_nodes)
         /\ d.cursor_x = 0
         /\ d.current_line_nodes = <<>>
         /\ d.space_width = c.space_width
         /\ d.outer_position = c.outer_position
         /\ d.outer_size = c.outer_size

\* C29: flush_line with words in the buffer adds exactly one Line to the
\* block, whose children are the buffered words in the order of the buffer,
\* moves cursor_y down by 1.25 x (max_ascent + max_descent) of those words,
\* sets cursor_x to 0 and empties the buffer; with an empty buffer it
\* changes nothing.  This is so for a flush in every state the composer
\* reaches, and for the flush at the end of the block.
C29_FlushLine ==
    /\ [](Flushed(composer, FlushLine(composer)))
    /\ [][EndOfBlock =>
            Flushed(composer,
                    [composer' EXCEPT !.outer_size = composer.outer_size])]_vars

\* C29: a line of two words of different fonts has been flushed at the
\* end of the block: the cursor is as far down as the larger font is high
C29_Witness ==
    /\ lpc = "done"
    /\ Len(composer.children) = 1
    /\ Len(composer.children[1].children) = 2
    /\ composer.children[1].children[1].galley.ascent
           # composer.children[1].children[2].galley.ascent
    /\ composer.cursor_y = 40
    /\ composer.cursor_x = 0
    /\ composer.current_line_nodes = <<>>

\* The tags whose opening and closing are looked at
TagEvents ==
    { <<"b","r">>, <<"p">>, <<"b">>, <<"i">>, <<"s","p","a","n">>, <<"d","i","v">>, <<"b","i","g">>, <<"s","m","a","l","l">> }

-----------------------------------------------------------------------------
(* Properties of resolve (C25)                                             *)

RECURSIVE KeptFrom(_, _, _)
\* The segments of pieces[1..i] that are left when every `..` has taken
\* away the segment before it, read from the last piece back: skip is the
\* number of `..` read that have not taken a segment away yet
KeptFrom(pieces, i, skip) ==
    IF i = 0 THEN <<>>
    ELSE IF pieces[i] \in { <<>>, <<".">> } THEN KeptFrom(pieces, i - 1, skip)
    ELSE IF pieces[i] = <<".",".">> THEN KeptFrom(pieces, i - 1, skip + 1)
    ELSE IF skip > 0 THEN KeptFrom(pieces, i - 1, skip - 1)
    ELSE Append(KeptFrom(pieces, i - 1, 0), pieces[i])

RECURSIVE PathOf(_)
\* The path made of segments
PathOf(segments) ==
    IF segments = <<>> THEN <<>>
    ELSE <<"/">> \o segments[1] \o PathOf(Tail(segments))

\* The path up to its last `/`
DirectoryOf(path) ==
    CHOOSE d \in { SubSeq(path, 1, k) : k \in 0..Len(path) } :
        /\ Len(d) < Len(path)
        /\ path[Len(d) + 1] = "/"
        /\ ~Contains(SubSeq(path, Len(d) + 2, Len(path)), "/")

\* The path a reference of a path form stands for, before `.` and `..` are
\* taken out
JoinedPath(base, reference) ==
    IF StartsWith(reference, "/") THEN reference
    ELSE DirectoryOf(base.path) \o <<"/">> \o reference

\* The path is `/` followed by segments none of which is `.` or `..`
IsNormalPath(path) ==
    /\ StartsWith(path, "/")
    /\ \A i \in 1..Len(SplitChar(path, "/")) :
           SplitChar(path, "/")[i] \notin { <<".">>, <<".",".">> }

\* C25: resolve(base, ref), for a base that Url::new made: a ref with `://`
\* in it gives what Url::new gives for the ref alone, whatever the base; a
\* ref that starts with `//` gives what Url::new gives for the scheme of the
\* base, `:` and the ref; any other ref gives a Url whose path is the ref
\* (when it starts with `/`, whatever the path of the base) or the directory
\* of the path of the base, `/` and the ref, with the `.` segments dropped
\* and each `..` taking away the segment before it if there is one.  That
\* path starts with `/` and has no `.` or `..` segment.
C25_Resolve ==
    resolved # None =>
        LET base == Unwrap(url)
            r == Unwrap(resolved)
            pieces == SplitChar(JoinedPath(base, href), "/")
        IN  IF ContainsStr(href, <<":","/","/">>)
            THEN /\ r = UrlNew(href)
                 /\ \A other \in FirstUrls : Resolve(other, href) = r
            ELSE IF StartsWithStr(href, <<"/","/">>)
            THEN /\ r = UrlNew(base.scheme \o <<":">> \o href)
                 /\ r.ok => r.url.scheme = base.scheme
            ELSE /\ r.ok
                 /\ r.url.path =
                        IF KeptFrom(pieces, Len(pieces), 0) = <<>> THEN <<"/">>
                        ELSE PathOf(KeptFrom(pieces, Len(pieces), 0))
                 /\ IsNormalPath(r.url.path)
                 /\ StartsWith(href, "/") =>
                        \A other \in FirstUrls :
                            Resolve(other, href).url.path = r.url.path

\* C25: a reference with more `..` than the directory of the base is deep
\* has been resolved: the path is the last segment under the root
C25_Witness ==
    /\ resolved # None
    /\ Unwrap(url).path = <<"/","a","/","b">>
    /\ href = <<".",".","/",".",".","/",".",".","/","c">>
    /\ Unwrap(resolved).ok
    /\ Unwrap(resolved).url.path = <<"/","c">>

-----------------------------------------------------------------------------
(* Properties of the server a resolved reference names (C38)               *)

\* The reference is of a path form: no `://` in it and no `//` in front
IsPathForm(reference) ==
    ~ContainsStr(reference, <<":","/","/">>) /\ ~StartsWithStr(reference, <<"/","/">>)

\* C38, as the claim states it: a reference of a path form resolved against
\* a base gives a Url with the scheme, the host and the port of the base
C38_AsStated ==
    (resolved # None /\ IsPathForm(href)) =>
        /\ Unwrap(resolved).ok
        /\ Unwrap(resolved).url.scheme = Unwrap(url).scheme
        /\ Unwrap(resolved).url.host = Unwrap(url).host
        /\ Unwrap(resolved).url.port = Unwrap(url).port

-----------------------------------------------------------------------------
(* Properties of the horizontal cursor (C39)                               *)

\* The first text of the sequence texts is x to the right of `left`
StartsAt(texts, left, x) ==
    texts # <<>> => Unwrap(texts[1].position).x = left + x

\* C39: in the composer of an inline block cursor_x is 0 whenever no word
\* waits in the buffer, after any sequence of word, open_tag and close_tag
\* calls and after the last flush; the first word that waits in the buffer
\* is at x = 0, and the first word of every line of the block is at the left
\* edge of the block.
C39_CursorAtStart ==
    /\ composer.current_line_nodes = <<>> => composer.cursor_x = 0
    /\ StartsAt(composer.current_line_nodes, 0, 0)
    /\ \A i \in 1..Len(composer.children) :
           /\ composer.children[i].children # <<>>
           /\ StartsAt(composer.children[i].children,
                       Unwrap(composer.outer_position).x, 0)

\* C39: two lines of one word each have been flushed after four calls, and
\* no word waits
C39_Witness ==
    /\ lpc = "recurse"
    /\ walked = 4
    /\ Len(composer.children) = 2
    /\ Len(composer.children[1].children) = 1
    /\ Len(composer.children[2].children) = 1
    /\ composer.children[2].children[1].galley.width < Unwrap(composer.outer_size).x
    /\ composer.current_line_nodes = <<>>
    /\ composer.cursor_x = 0

-----------------------------------------------------------------------------
(* Properties of scrolling (C37)                                           *)

\* max_y of scroll_down for the document doc
MaxY(doc) == HeightOr0(doc) + 2 * VSTEP - HEIGHT

\* The document has been laid out by a draw()
IsLaidOut(doc) == doc.size # None /\ doc.children # <<>>

\* C37, as the claim states it: a scroll_down on a document that has been
\* laid out leaves scroll_y at or below max_y, and raises scroll_y by
\* SCROLL_STEP at most
C37_AsStated ==
    [][(ScrollDown /\ document # None /\ IsLaidOut(Unwrap(document))) =>
          /\ scroll_y' <= MaxY(Unwrap(document))
          /\ scroll_y' - scroll_y <= SCROLL_STEP]_vars

-----------------------------------------------------------------------------
(* Properties of the positions of lines and texts and of paint (C31-C33)   *)

RECURSIVE HeightAbove(_, _)
\* The heights of the lines before line i, added up
HeightAbove(lines, i) ==
    IF i <= 1 THEN 0
    ELSE HeightAbove(lines, i - 1) + Unwrap(lines[i - 1].size).y

\* The Blocks of the document that hold lines
InlineBlocks ==
    { b \in BlocksOf(Unwrap(document)) :
        b.children # <<>> /\ b.children[1].content = "Line" }

\* The document has been laid out and painted
Painted == LaidOut /\ draw_commands # <<>>

RECURSIVE TextsUnder(_)
RECURSIVE TextsUnderAll(_, _)
\* The Text nodes under node in the order of a pre-order walk
TextsUnder(node) ==
    (IF node.content = "Text" THEN <<node>> ELSE <<>>)
      \o TextsUnderAll(node.children, 1)

TextsUnderAll(kids, i) ==
    IF i > Len(kids) THEN <<>>
    ELSE TextsUnder(kids[i]) \o TextsUnderAll(kids, i + 1)

IsDrawText(cmd) == cmd.command = "DrawText"

\* The line at place i of block b is at the x of b, at or below the top of
\* b and the lines above it, in the coordinates of the window
LineAbsolute(b, i) ==
    /\ Unwrap(b.children[i].position).x = Unwrap(b.position).x
    /\ Unwrap(b.children[i].position).y
           >= Unwrap(b.position).y + HeightAbove(b.children, i)
    /\ i = 1 => Unwrap(b.children[i].position).y >= VSTEP

\* The texts of a line are at or right of the x of the line, the first at
\* it, and on the baseline of the line, in the coordinates of the window
TextsAbsolute(line) ==
    \A k \in 1..Len(line.children) :
        /\ Unwrap(line.children[k].position).x >= Unwrap(line.position).x
        /\ k = 1 => Unwrap(line.children[k].position).x
                        = Unwrap(line.position).x
        /\ k > 1 => Unwrap(line.children[k].position).x
                        >= Unwrap(line.children[k - 1].position).x
                             + Unwrap(line.children[k - 1].size).x
        /\ Unwrap(line.children[k].position).y =
               Unwrap(line.position).y
                 + ((line.max_ascent * 5) \div 4
                      - line.children[k].galley.ascent)

RECURSIVE BlocksUnder(_)
RECURSIVE BlocksUnderAll(_, _)
\* The Block nodes under node in the order of a pre-order walk
BlocksUnder(node) ==
    (IF node.content = "Block" THEN <<node>> ELSE <<>>)
      \o BlocksUnderAll(node.children, 1)

BlocksUnderAll(kids, i) ==
    IF i > Len(kids) THEN <<>>
    ELSE BlocksUnder(kids[i]) \o BlocksUnderAll(kids, i + 1)

IsDrawRect(cmd) == cmd.command = "DrawRect"

\* The background-color of the node of block b is a color, and not the
\* transparent one
HasBackground(b) ==
    /\ K_background \in DOMAIN styles[b.node]
    /\ styles[b.node][K_background] \in NamedColors \ { V_transparent }

\* The rectangle rect spans block b in the color of its background
SpansBlock(rect, b) ==
    /\ rect.top_left = Unwrap(b.position)
    /\ rect.bottom_right.x = Unwrap(b.position).x + Unwrap(b.size).x
    /\ rect.bottom_right.y = Unwrap(b.position).y + Unwrap(b.size).y
    /\ rect.color = styles[b.node][K_background]

\* draw() has laid the document out and painted it in this step
DrawnNow == Draw /\ document' # document

\* The commands cmds are one text run for each Text node of doc and one
\* rectangle for each Block of doc that has a background, and nothing else
LocalPaint(doc, cmds) ==
    LET texts == TextsUnder(doc)
        runs == SelectSeq(cmds, IsDrawText)
        blocks == SelectSeq(BlocksUnder(doc), HasBackground)
        rects == SelectSeq(cmds, IsDrawRect)
    IN  /\ Len(runs) = Len(texts)
        /\ \A k \in 1..Len(runs) : runs[k].galley = texts[k].galley
        /\ Len(rects) = Len(blocks)
        /\ \A k \in 1..Len(rects) : SpansBlock(rects[k], blocks[k])
        /\ Len(cmds) = Len(runs) + Len(rects)

RECURSIVE PaintedUnder(_)
RECURSIVE PaintedUnderAll(_, _)
\* The nodes under node that are painted (Texts, and Blocks that have a
\* background), each before its descendants and after the nodes under its
\* earlier siblings
PaintedUnder(node) ==
    (IF node.content = "Text" \/ (node.content = "Block" /\ HasBackground(node))
     THEN <<node>> ELSE <<>>)
      \o PaintedUnderAll(node.children, 1)

PaintedUnderAll(kids, i) ==
    IF i > Len(kids) THEN <<>>
    ELSE PaintedUnder(kids[i]) \o PaintedUnderAll(kids, i + 1)

\* The command cmd is the one of the painted node
CommandOf(cmd, node) ==
    IF node.content = "Text"
    THEN IsDrawText(cmd) /\ cmd.galley = node.galley
           /\ cmd.x = Unwrap(node.position).x /\ cmd.y = Unwrap(node.position).y
    ELSE IsDrawRect(cmd) /\ SpansBlock(cmd, node)

RECURSIVE WordsUnder(_)
RECURSIVE WordsUnderAll(_, _)
\* The words of the text under node n of the document, in source order
WordsUnder(n) ==
    IF dom[n].kind = "Element" THEN WordsUnderAll(dom[n].children, 1)
    ELSE SplitWhitespace(dom[n].text)

WordsUnderAll(kids, i) ==
    IF i > Len(kids) THEN <<>>
    ELSE WordsUnder(kids[i]) \o WordsUnderAll(kids, i + 1)

\* The words that the text runs under layout node b draw
WordsDrawn(b) ==
    [k \in 1..Len(TextsUnder(b)) |-> TextsUnder(b)[k].galley.text]

\* The display list cmds is the pre-order walk of doc
PreOrder(doc, cmds) ==
    /\ Len(cmds) = Len(PaintedUnder(doc))
    /\ \A k \in 1..Len(cmds) : CommandOf(cmds[k], PaintedUnder(doc)[k])
    /\ \A i \in 1..Len(doc.children) :
           WordsDrawn(doc.children[i]) = WordsUnder(doc.children[i].node)

\* C33: the display list is in the order of a pre-order walk of the layout
\* tree: the rectangle of a Block comes before the commands of the nodes
\* under it, the commands of a node come before those of its later
\* siblings, and the text runs of each Block under the Document are the
\* words of the page in source order.
C33_PreOrder == [][DrawnNow => PreOrder(Unwrap(document'), draw_commands')]_vars

\* C33: a document laid out once has been painted: the rectangle of its
\* block first, then the text runs of its first line from left to right
C33_Witness ==
    /\ Painted
    /\ Len(Unwrap(document).children) = 1
    /\ Len(draw_commands) >= 3
    /\ IsDrawRect(draw_commands[1])
    /\ IsDrawText(draw_commands[2])
    /\ IsDrawText(draw_commands[3])
    /\ draw_commands[2].y = draw_commands[3].y
    /\ draw_commands[2].x < draw_commands[3].x

-----------------------------------------------------------------------------
(* Properties of the tags that start with `!` (C34)                        *)

\* Tags that start with `!`: a doctype, comments
BangTags == { F_doctype, <<"<","!","D","O","C","T","Y","P","E"," ","h","t","m","l",">">>, <<"<","!","-","-"," ","x"," ","-","-",">">>, <<"<","!",">">> }

\* The scanner `behind`, reached by reading a `!` tag in the scanner
\* `before`, goes on as `before` does: the same at the `<` of the next tag
\* and at the end of the input
GoesOnAs(behind, before) ==
    /\ ParseChar(behind, "<") = ParseChar(before, "<")
    /\ ParseEnd(behind) = ParseEnd(before)

\* C34: a tag that starts with `!` is discarded.  Read where no text waits
\* in the buffer it leaves the open elements, the tree and the scanner as
\* they are; read behind a text it does what the `<` of any tag does, add
\* the text.  So at the next tag, and at the end of the input, the parser
\* is in the state it is in without the `!` tag: parse() returns the same
\* tree whether or not such tags stand between the tokens.
C34_Discarded ==
    /\ [](\A bang \in BangTags :
            (hpc = "scan" /\ ~in_tag) =>
                IF buffer = <<>>
                THEN ParseChars(Scanner, bang, 1) = Scanner
                ELSE GoesOnAs(ParseChars(Scanner, bang, 1), Scanner))
    /\ [][(hpc = "scan" /\ ~in_tag /\ buffer = <<>> /\ Fed = F_doctype) =>
            UNCHANGED <<unfinished, nodes, buffer, in_tag, hpc>>]_vars

\* C34: a page with a `!` tag between a tag and a text has been parsed, and
\* the tree is html, body, p and the text
C34_Witness ==
    /\ body = F_p \o F_doctype \o F_x
    /\ hpc = "done"
    /\ root # NoNode
    /\ Len(nodes) = 4
    /\ \A i \in 1..Len(nodes) :
           nodes[i].kind = "Element" => ~StartsWith(nodes[i].tag, "!")

-----------------------------------------------------------------------------
(* Properties of get_attributes (C35)                                      *)

\* The key of an attribute token: what stands before its first `=`, or
\* the whole token, in lower case
KeyOf(token) ==
    ToLowercase(IF Contains(token, "=")
                THEN SubSeq(token, 1, FindFrom(token, <<"=">>, 1) - 1)
                ELSE token)

\* The value of an attribute token as the claim has it: everything behind
\* the first `=` with the quotes around it stripped, or the empty string
ValueOf(token) ==
    IF Contains(token, "=")
    THEN TrimQuotes(SubSeq(token, FindFrom(token, <<"=">>, 1) + 1, Len(token)))
    ELSE <<>>

\* C35, as the claim states it: the first token of the tag text in lower
\* case is the tag name, and every other token is stored under its key in
\* lower case with everything behind its first `=`, quotes stripped, or
\* the empty string, as its value (the last token of a key counts)
C35_AsStated ==
    tag_element # None =>
        LET parts == SplitWhitespace(tag_text)
        IN  /\ Unwrap(tag_element).ok
            /\ Unwrap(tag_element).tag = ToLowercase(parts[1])
            /\ DOMAIN Unwrap(tag_element).attributes
                   = { KeyOf(parts[i]) : i \in 2..Len(parts) }
            /\ \A i \in 2..Len(parts) :
                   (\A j \in (i + 1)..Len(parts) : KeyOf(parts[j]) # KeyOf(parts[i]))
                   => Unwrap(tag_element).attributes[KeyOf(parts[i])]
                          = ValueOf(parts[i])

-----------------------------------------------------------------------------
(* Properties of the order of the cascade (C36)                            *)

RECURSIVE RulesOf(_, _)
\* The rules of the linked sheets fetched[i..] that were fetched and parse,
\* sheet after sheet, each in source order
RulesOf(fetched, i) ==
    IF i > Len(fetched) THEN <<>>
    ELSE (IF fetched[i].ok /\ Parse(fetched[i].text).ok
          THEN Parse(fetched[i].text).rules ELSE <<>>)
           \o RulesOf(fetched, i + 1)

\* The rules in cascade order before the sort: the embedded sheet first
CascadeOrder == default_sheet \o RulesOf(linked, 1)

\* The priorities of the rules of the cascade
Priorities == { CascadePriority(CascadeOrder[i]) : i \in 1..Len(CascadeOrder) }

\* The rules of sequence rs that have priority pr, in the order of rs
OfPriority(rs, pr) == SelectSeq(rs, LAMBDA r : CascadePriority(r) = pr)

\* The rules of sequence rs that match node n and declare property k
Declaring(rs, n, k) ==
    SelectSeq(rs, LAMBDA r : Matches(dom, r.selector, n) /\ k \in DOMAIN r.body)

\* Node n is an element without a `style` attribute
HasNoInlineStyle(n) ==
    dom[n].kind = "Element" /\ K_attr_style \notin DOMAIN dom[n].attributes

\* C36: the sort keeps the rules of one priority in cascade order, which
\* is the embedded sheet first and then the linked sheets, each in source
\* order; so of the rules of the highest priority that match an element
\* and declare a property the last one in cascade order gives the value.
C36_CascadeOrder ==
    /\ tpc \in {"style", "styled"} =>
         /\ Len(sheet) = Len(CascadeOrder)
         /\ \A i \in 1..(Len(sheet) - 1) :
                CascadePriority(sheet[i]) <= CascadePriority(sheet[i + 1])
         /\ \A pr \in Priorities :
                OfPriority(sheet, pr) = OfPriority(CascadeOrder, pr)
    /\ tpc = "styled" =>
         \A n \in 1..Len(dom) :
             LET declaring == Declaring(CascadeOrder, n, K_color)
                 top == CHOOSE pr \in { CascadePriority(declaring[i]) :
                                          i \in 1..Len(declaring) } :
                            \A i \in 1..Len(declaring) :
                                CascadePriority(declaring[i]) <= pr
             IN  (HasNoInlineStyle(n) /\ declaring # <<>>) =>
                     styles[n][K_color]
                         = Last(OfPriority(declaring, top)).body[K_color]

\* C36: two rules for p of one linked sheet, red and then blue, behind the
\* gray of the embedded sheet: the p is blue
C36_Witness ==
    /\ tpc = "styled"
    /\ default_sheet # <<>>
    /\ Len(linked) = 1
    /\ linked[1].ok
    /\ linked[1].text = L_p_red \o L_p_blue
    /\ \E n \in 1..Len(dom) :
           /\ HasNoInlineStyle(n)
           /\ dom[n].tag = <<"p">>
           /\ Len(Declaring(CascadeOrder, n, K_color)) = 3
           /\ styles[n][K_color] = V_blue

=============================================================================
